---- MODULE Spec2Model ----
(***************************************************************************)
(* A model of the Civix hybrid decision pipeline:                          *)
(*   - the provider gateway       (lib/ai/providers.ts)                    *)
(*   - the rules engine           (lib/rules/engine.ts)                    *)
(*   - the evaluation of a rule set (lib/rules/evaluator.ts)               *)
(*   - the conversation orchestrator and the query endpoint                *)
(*                                (lib/ai/conversation.ts, api/query)      *)
(*   - the matcher's three requests on a completion (lib/ai/matcher.ts)    *)
(*   - requests of one caller in flight at once (api/query, usage-limiter) *)
(* A single call of processMessage is studied on its own in TurnSpec, on   *)
(* every conversation row earlier requests can leave.                      *)
(* Each part has its own specification over the shared variable list; the  *)
(* variables of the other parts stay at their initial value.               *)
(***************************************************************************)
EXTENDS Integers, Sequences, FiniteSets, TLC

VARIABLES
    \* ---- provider gateway ----
    clients,          \* providers whose client object is non-null
    primary,          \* AI_CONFIG.primary
    fallbackEnabled,  \* AI_CONFIG.fallbackEnabled
    gwPc,             \* "idle" | "calling" | "done"
    optProvider,      \* options.provider of the outermost callAI (NoProvider if absent)
    frames,           \* stack of callAI activations, outermost first
    backendLog,       \* backend functions invoked in this logical call, with outcome
    gwResult,         \* what the outermost callAI gave its caller
    httpResponse,     \* what POST /api/query answers for the turn of that call
    \* ---- rules engine: evaluateRule ----
    rule,             \* the rule handed to evaluateRule
    inputs,           \* the UserInputs handed to evaluateRule
    engPc,            \* "ready" | "evaluated"
    evalResult,       \* what evaluateRule returned (or that it threw)
    \* ---- rules engine: determineOutcome ----
    results,          \* the RuleEvaluationResult[] handed to determineOutcome
    outPc,            \* "ready" | "determined" | "explained"
    finalOutcome,     \* what determineOutcome returned
    rationale,        \* what generateRationale returned
    \* ---- conversation orchestrator and query endpoint ----
    store,            \* the conversation row of the database (db.conversation)
    messages,         \* the message rows of the conversation, oldest first
    decisions,        \* the decision rows (db.decision), oldest first
    usageCount,       \* anonymousUsage.queryCount of the caller's fingerprint
    turns,            \* turns processed so far
    acceptedRequired, \* history: requiredInputs of the category match accepted
    lastTurn,         \* history: what the last request did and answered
    observed,         \* history: a single turn in full, when one is studied
    \* ---- rules engine: the evaluation of a rule set ----
    lookup,           \* what the bridge finds: the jurisdiction row, the ruleset
    ruleset,          \* ruleset.rules as loaded, in the order they were returned
    plInputs,         \* the UserInputs of the request
    runs,             \* what each evaluation so far returned, oldest first
    \* ---- matcher: one request built on a completion ----
    matcherCall,      \* the function called, with the completion it is given
    matcherResult,    \* what the call returned (or that it threw)
    \* ---- query endpoint: requests in flight for one conversation ----
    inflight,         \* each request's position, context and response
    served            \* responses of type result the caller has received

gwVars == <<clients, primary, fallbackEnabled, gwPc, optProvider, frames,
            backendLog, gwResult, httpResponse>>

engVars == <<rule, inputs, engPc, evalResult>>

outVars == <<results, outPc, finalOutcome, rationale>>

convVars == <<store, messages, decisions, usageCount, turns, acceptedRequired,
              lastTurn, observed>>

plVars == <<lookup, ruleset, plInputs, runs>>

mtVars == <<matcherCall, matcherResult>>

rqVars == <<inflight, served>>

auxVars == <<mtVars, rqVars>>

vars == <<gwVars, engVars, outVars, convVars, plVars, auxVars>>

\* the value the variables of a part keep under the other parts' specifications
EngineParked ==
    /\ rule = "none"
    /\ inputs = "none"
    /\ engPc = "parked"
    /\ evalResult = "none"

OutcomeParked ==
    /\ results = <<>>
    /\ outPc = "parked"
    /\ finalOutcome = "none"
    /\ rationale = <<>>

ConversationParked ==
    /\ store = "none"
    /\ messages = <<>>
    /\ decisions = <<>>
    /\ usageCount = 0
    /\ turns = 0
    /\ acceptedRequired = <<>>
    /\ lastTurn = "none"
    /\ observed = "none"

PipelineParked ==
    /\ lookup = "none"
    /\ ruleset = <<>>
    /\ plInputs = "none"
    /\ runs = <<>>

MatcherParked ==
    /\ matcherCall = "none"
    /\ matcherResult = "none"

RequestsParked ==
    /\ inflight = "none"
    /\ served = 0

AuxParked == MatcherParked /\ RequestsParked

GatewayParked ==
    /\ clients = {}
    /\ primary = "gemini"
    /\ fallbackEnabled = FALSE
    /\ gwPc = "parked"
    /\ optProvider = "none"
    /\ frames = <<>>
    /\ backendLog = <<>>
    /\ gwResult = "none"
    /\ httpResponse = "none"

(***************************************************************************)
(*                           PROVIDER GATEWAY                              *)
(***************************************************************************)

\* type AIProvider
Providers == {"gemini", "anthropic", "openai"}

\* options.provider left out by the caller
NoProvider == "none"

\* AI_PRIMARY_PROVIDER is an unchecked environment string: besides the three
\* providers it may hold a name the switch of callAI does not know.
PrimaryChoices == Providers \cup {"other"}

NoError == [from |-> "none", kind |-> "none"]
NoResult == [status |-> "none", provider |-> "none", error |-> NoError]

\* mutants of getFallbackProvider: one that does not look at the credentials, one
\* that hands back the provider that has just failed
getFallbackProvider_NoCredentialCheck(p) ==
    IF p = "gemini" THEN "anthropic" ELSE "gemini"

getFallbackProvider_SameProvider(p) ==
    p

\* mutant of getFallbackProvider: the next provider of the chain, configured or not
getFallbackProvider_NextInChain(p) ==
    IF p = "gemini" THEN "anthropic"
    ELSE IF p = "anthropic" THEN "openai"
    ELSE "gemini"

\* getFallbackProvider(primary)
getFallbackProvider(p) ==
    IF p = "gemini" THEN (IF "anthropic" \in clients THEN "anthropic" ELSE "openai")
    ELSE IF p = "anthropic" THEN (IF "gemini" \in clients THEN "gemini" ELSE "openai")
    ELSE (IF "gemini" \in clients THEN "gemini" ELSE "anthropic")

\* mutant of shouldFallback: the guard without its !options.provider conjunct
shouldFallback_IgnoresExplicit(frame) ==
    fallbackEnabled

\* the guard of the catch block of callAI: fallback enabled and no provider given
\* to this activation
shouldFallback(frame) ==
    fallbackEnabled /\ frame.optProvider = NoProvider

\* the provider an activation of callAI uses: options.provider || AI_CONFIG.primary
frameProvider(opt) ==
    IF opt # NoProvider THEN opt ELSE primary

Top == frames[Len(frames)]

\* error.message of the error callAI rethrew: the backend function's own text
\* for a missing key, which names the backend, the text of the SDK's error for a
\* failed call, or `Unknown provider: ${provider}`
errorMessage(e) == [text |-> e.kind, names |-> e.from]

NoDetails == [text |-> "none", names |-> "none"]
NotResponded == [status |-> 0, error |-> "none", details |-> NoDetails]

\* the catch block of POST /api/query, reached by the error of a callAI that
\* detectJurisdiction, matchCategory, extractInputs or
\* generateClarifyingQuestion awaited, none of which catches it
internalServerError(e) ==
    [status |-> 500, error |-> "Internal server error",
     details |-> errorMessage(e)]

\* module load: the three clients, AI_CONFIG
GatewayInit ==
    /\ clients \in SUBSET Providers
    /\ primary \in PrimaryChoices
    /\ fallbackEnabled \in BOOLEAN
    /\ gwPc = "idle"
    /\ optProvider = NoProvider
    /\ frames = <<>>
    /\ backendLog = <<>>
    /\ gwResult = NoResult
    /\ httpResponse = NotResponded
    /\ EngineParked
    /\ OutcomeParked
    /\ ConversationParked
    /\ PipelineParked
    /\ AuxParked

\* a caller enters callAI, with or without options.provider
CallAI(opt) ==
    /\ gwPc = "idle"
    /\ gwPc' = "calling"
    /\ optProvider' = opt
    /\ frames' = <<[provider |-> frameProvider(opt), optProvider |-> opt]>>
    /\ UNCHANGED <<clients, primary, fallbackEnabled, backendLog, gwResult,
                   httpResponse>>

\* the catch block of callAI for error e raised in the top activation: either the
\* recursive callAI with provider: fallbackProvider, or the error is rethrown and,
\* no enclosing activation catching it (the recursive call is made inside the
\* catch block), reaches the caller.
Catch(e) ==
    IF shouldFallback(Top)
    THEN /\ frames' = Append(frames,
                [provider |-> getFallbackProvider(Top.provider),
                 optProvider |-> getFallbackProvider(Top.provider)])
         /\ UNCHANGED <<gwPc, gwResult>>
    ELSE /\ frames' = <<>>
         /\ gwPc' = "done"
         /\ gwResult' = [status |-> "error", provider |-> "none", error |-> e]

\* callGemini / callClaude / callOpenAI runs to its return: the response names
\* the backend, and every enclosing activation returns it unchanged.
BackendReturns ==
    /\ gwPc = "calling"
    /\ Top.provider \in Providers
    /\ Top.provider \in clients
    /\ backendLog' = Append(backendLog, [provider |-> Top.provider, outcome |-> "ok"])
    /\ frames' = <<>>
    /\ gwPc' = "done"
    /\ gwResult' = [status |-> "ok", provider |-> Top.provider, error |-> NoError]
    /\ UNCHANGED <<clients, primary, fallbackEnabled, optProvider, httpResponse>>

\* the backend function throws: its client is null ("API key not configured"), or
\* the SDK call fails
BackendThrows ==
    /\ gwPc = "calling"
    /\ Top.provider \in Providers
    /\ LET kind == IF Top.provider \in clients THEN "backend" ELSE "not_configured"
       IN /\ backendLog' = Append(backendLog,
                                  [provider |-> Top.provider, outcome |-> kind])
          /\ Catch([from |-> Top.provider, kind |-> kind])
    /\ UNCHANGED <<clients, primary, fallbackEnabled, optProvider, httpResponse>>

\* the default branch of the switch: throw new Error(`Unknown provider`)
UnknownProviderThrows ==
    /\ gwPc = "calling"
    /\ Top.provider \notin Providers
    /\ Catch([from |-> Top.provider, kind |-> "unknown_provider"])
    /\ UNCHANGED <<clients, primary, fallbackEnabled, optProvider, backendLog,
                   httpResponse>>

\* POST /api/query answers the turn in which callAI was called
QueryAnswers ==
    /\ gwPc = "done"
    /\ httpResponse = NotResponded
    /\ httpResponse' = (IF gwResult.status = "error"
                        THEN internalServerError(gwResult.error)
                        ELSE [status |-> 200, error |-> "none",
                              details |-> NoDetails])
    /\ UNCHANGED <<clients, primary, fallbackEnabled, gwPc, optProvider, frames,
                   backendLog, gwResult>>

GatewayNext ==
    \/ (\E opt \in Providers \cup {NoProvider} : CallAI(opt))
           /\ UNCHANGED <<engVars, outVars, convVars, plVars, auxVars>>
    \/ BackendReturns /\ UNCHANGED <<engVars, outVars, convVars, plVars, auxVars>>
    \/ BackendThrows /\ UNCHANGED <<engVars, outVars, convVars, plVars, auxVars>>
    \/ UnknownProviderThrows /\ UNCHANGED <<engVars, outVars, convVars, plVars, auxVars>>
    \/ QueryAnswers /\ UNCHANGED <<engVars, outVars, convVars, plVars, auxVars>>

GatewaySpec == GatewayInit /\ [][GatewayNext]_vars

(***************************************************************************)
(*                    RULES ENGINE: JAVASCRIPT VALUES                      *)
(***************************************************************************)
\* A value is a record [t, v]: t its type tag, v its payload. Strings are
\* sequences of one-character strings, so that toLowerCase, includes and the
\* conversions Number() and String() are computed, not looked up.

Undefined == [t |-> "undefined", v |-> 0]
NaN == [t |-> "NaN", v |-> 0]
Num(n) == [t |-> "number", v |-> n]
Str(cs) == [t |-> "string", v |-> cs]
Bool(b) == [t |-> "boolean", v |-> b]
Arr(xs) == [t |-> "array", v |-> xs]

DigitChars == <<"0", "1", "2", "3", "4", "5", "6", "7", "8", "9">>
UpperChars == <<"A", "B", "C", "D", "E", "F", "G", "H", "I", "J", "K", "L", "M",
                "N", "O", "P", "Q", "R", "S", "T", "U", "V", "W", "X", "Y", "Z">>
LowerChars == <<"a", "b", "c", "d", "e", "f", "g", "h", "i", "j", "k", "l", "m",
                "n", "o", "p", "q", "r", "s", "t", "u", "v", "w", "x", "y", "z">>

IsDigit(c) == \E i \in 1..10 : DigitChars[i] = c
DigitValue(c) == (CHOOSE i \in 1..10 : DigitChars[i] = c) - 1

\* decimal digits of a natural number
RECURSIVE NatToChars(_)
NatToChars(n) ==
    IF n < 10 THEN <<DigitChars[n + 1]>>
    ELSE NatToChars(n \div 10) \o <<DigitChars[(n % 10) + 1]>>

\* value of a non-empty sequence of digits
RECURSIVE CharsToNat(_)
CharsToNat(cs) ==
    IF Len(cs) = 0 THEN 0
    ELSE 10 * CharsToNat(SubSeq(cs, 1, Len(cs) - 1)) + DigitValue(cs[Len(cs)])

\* String.prototype.toLowerCase, character by character
LowerChar(c) ==
    IF \E i \in 1..26 : UpperChars[i] = c
    THEN LowerChars[CHOOSE i \in 1..26 : UpperChars[i] = c]
    ELSE c

toLowerCase(cs) == [i \in 1..Len(cs) |-> LowerChar(cs[i])]

\* String.prototype.includes
includes(hay, needle) ==
    \E i \in 0..(Len(hay) - Len(needle)) :
        SubSeq(hay, i + 1, i + Len(needle)) = needle

\* String(x), as characters. An array is joined with ","; an undefined element of
\* an array prints as the empty string.
RECURSIVE ToChars(_)
RECURSIVE JoinChars(_, _)
JoinChars(xs, i) ==
    IF i > Len(xs) THEN <<>>
    ELSE (IF i > 1 THEN <<",">> ELSE <<>>)
         \o (IF xs[i].t = "undefined" THEN <<>> ELSE ToChars(xs[i]))
         \o JoinChars(xs, i + 1)

ToChars(x) ==
    CASE x.t = "string" -> x.v
      [] x.t = "number" -> IF x.v < 0 THEN <<"-">> \o NatToChars(0 - x.v)
                           ELSE NatToChars(x.v)
      [] x.t = "boolean" -> IF x.v THEN <<"t", "r", "u", "e">>
                            ELSE <<"f", "a", "l", "s", "e">>
      [] x.t = "undefined" -> <<"u", "n", "d", "e", "f", "i", "n", "e", "d">>
      [] x.t = "NaN" -> <<"N", "a", "N">>
      [] x.t = "array" -> JoinChars(x.v, 1)

\* Number() of a string over letters, digits and "-": the empty string is 0, an
\* optionally signed run of digits its value, anything else NaN
CharsToNumber(cs) ==
    IF Len(cs) = 0 THEN Num(0)
    ELSE IF \A i \in 1..Len(cs) : IsDigit(cs[i]) THEN Num(CharsToNat(cs))
    ELSE IF /\ cs[1] = "-"
            /\ Len(cs) > 1
            /\ \A i \in 2..Len(cs) : IsDigit(cs[i])
         THEN Num(0 - CharsToNat(SubSeq(cs, 2, Len(cs))))
    ELSE NaN

\* mutant of ToNumber: undefined converted as null is, to 0
ToNumber_UndefinedIsZero(x) ==
    CASE x.t = "number" -> x
      [] x.t = "NaN" -> NaN
      [] x.t = "boolean" -> IF x.v THEN Num(1) ELSE Num(0)
      [] x.t = "undefined" -> Num(0)
      [] x.t = "string" -> CharsToNumber(x.v)
      [] x.t = "array" -> CharsToNumber(ToChars(x))

\* Number(x)
ToNumber(x) ==
    CASE x.t = "number" -> x
      [] x.t = "NaN" -> NaN
      [] x.t = "boolean" -> IF x.v THEN Num(1) ELSE Num(0)
      [] x.t = "undefined" -> NaN
      [] x.t = "string" -> CharsToNumber(x.v)
      [] x.t = "array" -> CharsToNumber(ToChars(x))

\* a === b: primitives of the same type and value; NaN equals nothing; an array is
\* identical only to itself, and no array of the inputs is an array of a rule
StrictEquals(a, b) ==
    /\ a.t = b.t
    /\ a.t \in {"undefined", "number", "string", "boolean"}
    /\ a.v = b.v

\* Array.prototype.includes (SameValueZero: as ===, but NaN is found)
ArrayIncludes(xs, x) ==
    \E i \in 1..Len(xs) :
        StrictEquals(xs[i], x) \/ (xs[i].t = "NaN" /\ x.t = "NaN")

\* a > b on two numbers: false when either is NaN
NumGreater(a, b) == a.t = "number" /\ b.t = "number" /\ a.v > b.v
NumLess(a, b) == a.t = "number" /\ b.t = "number" /\ a.v < b.v

\* new RegExp(value).test(s) for the patterns modelled: literal letters and
\* digits, optionally anchored with ^ and $. "(" stands for a pattern that
\* RegExp rejects with a SyntaxError. RegExp(undefined) is the empty pattern.
PatternChars(value) == IF value.t = "undefined" THEN <<>> ELSE ToChars(value)

RegExpInvalid(value) ==
    \E i \in 1..Len(PatternChars(value)) : PatternChars(value)[i] = "("

RegExpTest(value, cs) ==
    LET pat == PatternChars(value)
        front == Len(pat) > 0 /\ pat[1] = "^"
        back == Len(pat) > (IF front THEN 1 ELSE 0) /\ pat[Len(pat)] = "$"
        lit == SubSeq(pat, (IF front THEN 2 ELSE 1),
                      (IF back THEN Len(pat) - 1 ELSE Len(pat)))
    IN CASE front /\ back -> cs = lit
         [] front /\ ~back -> Len(cs) >= Len(lit) /\ SubSeq(cs, 1, Len(lit)) = lit
         [] ~front /\ back ->
                Len(cs) >= Len(lit)
                /\ SubSeq(cs, Len(cs) - Len(lit) + 1, Len(cs)) = lit
         [] OTHER -> includes(cs, lit)

(***************************************************************************)
(*                       RULES ENGINE: EVALUATION                          *)
(***************************************************************************)

\* type ConditionOperator
Operators == {"equals", "notEquals", "greaterThan", "lessThan", "in", "notIn",
              "contains", "regex"}

\* type RuleOutcome
RuleOutcomes == {"ALLOWED", "RESTRICTED", "PROHIBITED", "CONDITIONAL"}

\* RuleCondition.message left out
NoMessage == ""

\* inputs[condition.field]: undefined for a key the inputs do not hold
Lookup(ins, f) == IF f \in DOMAIN ins THEN ins[f] ELSE Undefined

\* RulesEngine.evaluateCondition: {passed, message}, or threw
evaluateCondition(condition, ins) ==
    LET fieldValue == Lookup(ins, condition.field)
        operator == condition.operator
        value == condition.value
        passed ==
            CASE operator = "equals" -> StrictEquals(fieldValue, value)
              [] operator = "notEquals" -> ~StrictEquals(fieldValue, value)
              [] operator = "greaterThan" ->
                     NumGreater(ToNumber(fieldValue), ToNumber(value))
              [] operator = "lessThan" ->
                     NumLess(ToNumber(fieldValue), ToNumber(value))
              [] operator = "in" ->
                     value.t = "array" /\ ArrayIncludes(value.v, fieldValue)
              [] operator = "notIn" ->
                     value.t = "array" /\ ~ArrayIncludes(value.v, fieldValue)
              [] operator = "contains" ->
                     includes(toLowerCase(ToChars(fieldValue)),
                              toLowerCase(ToChars(value)))
              [] operator = "regex" -> RegExpTest(value, ToChars(fieldValue))
              [] OTHER -> FALSE
        threw ==
            \/ operator \notin Operators
            \/ (operator = "regex" /\ RegExpInvalid(value))
    IN [passed |-> ~threw /\ passed, message |-> condition.message, threw |-> threw]

\* an entry of passedConditions / failedConditions: result.message, or for an
\* empty message the text `${check.field} ${check.operator} ${check.value}`,
\* kept as its three parts
ConditionText(check, result) ==
    IF result.message # NoMessage
    THEN [text |-> result.message, field |-> "", operator |-> "", value |-> Undefined]
    ELSE [text |-> "", field |-> check.field, operator |-> check.operator,
          value |-> check.value]

\* 'type' in check
IsGroup(check) == "type" \in DOMAIN check

RECURSIVE evaluateConditionGroup(_, _)
RECURSIVE evaluateChecks(_, _, _, _)

\* the verdict of one check: a nested group's, or a single condition's
checkResult(check, ins) ==
    IF IsGroup(check) THEN evaluateConditionGroup(check, ins)
    ELSE evaluateCondition(check, ins)

\* mutant of pushResult: a check that threw is skipped and the loop goes on
pushResult_SkipsThrown(acc, check, result) ==
    IF result.threw THEN acc
    ELSE IF IsGroup(check)
    THEN [acc EXCEPT !.failedConditions = @ \o result.failedConditions,
                     !.passedConditions = @ \o result.passedConditions]
    ELSE IF result.passed
    THEN [acc EXCEPT !.passedConditions = Append(@, ConditionText(check, result))]
    ELSE [acc EXCEPT !.failedConditions = Append(@, ConditionText(check, result))]

\* mutant of pushResult: a nested group counts by its own verdict, as one entry
\* list: its passed conditions when it passed, its failed ones when it did not
pushResult_NestedVerdict(acc, check, result) ==
    IF result.threw THEN [acc EXCEPT !.threw = TRUE]
    ELSE IF IsGroup(check)
    THEN (IF result.passed
          THEN [acc EXCEPT !.passedConditions = @ \o result.passedConditions]
          ELSE [acc EXCEPT !.failedConditions = @ \o result.failedConditions])
    ELSE IF result.passed
    THEN [acc EXCEPT !.passedConditions = Append(@, ConditionText(check, result))]
    ELSE [acc EXCEPT !.failedConditions = Append(@, ConditionText(check, result))]

\* the two lists after one check: a nested group's lists are pushed onto them, a
\* single condition's text goes to the list its verdict names; an exception
\* thrown by the check leaves the loop
pushResult(acc, check, result) ==
    IF result.threw THEN [acc EXCEPT !.threw = TRUE]
    ELSE IF IsGroup(check)
    THEN [acc EXCEPT !.failedConditions = @ \o result.failedConditions,
                     !.passedConditions = @ \o result.passedConditions]
    ELSE IF result.passed
    THEN [acc EXCEPT !.passedConditions = Append(@, ConditionText(check, result))]
    ELSE [acc EXCEPT !.failedConditions = Append(@, ConditionText(check, result))]

\* the for loop of evaluateConditionGroup from check i on, acc holding the two
\* lists so far
evaluateChecks(checks, ins, i, acc) ==
    IF i > Len(checks) \/ acc.threw THEN acc
    ELSE evaluateChecks(checks, ins, i + 1,
                        pushResult(acc, checks[i], checkResult(checks[i], ins)))

\* mutant of groupPassed: an all group decided as an any group is
groupPassed_AllAsAny(type, failedConditions, passedConditions) ==
    Len(passedConditions) > 0

\* the verdict of a group from its two lists
groupPassed(type, failedConditions, passedConditions) ==
    IF type = "all" THEN Len(failedConditions) = 0 ELSE Len(passedConditions) > 0

\* what evaluateConditionGroup returns once the loop has run
groupResult(group, acc) ==
    [passed |-> ~acc.threw
                /\ groupPassed(group.type, acc.failedConditions,
                               acc.passedConditions),
     failedConditions |-> acc.failedConditions,
     passedConditions |-> acc.passedConditions,
     threw |-> acc.threw]

\* RulesEngine.evaluateConditionGroup
evaluateConditionGroup(group, ins) ==
    groupResult(group,
                evaluateChecks(group.checks, ins, 1,
                               [failedConditions |-> <<>>, passedConditions |-> <<>>,
                                threw |-> FALSE]))

\* rule.citation null or left out
NoCitation == ""

\* the result slot before evaluateRule has run, and after it threw
NoEvaluation ==
    [outcome |-> "none", matched |-> FALSE, failedConditions |-> <<>>,
     passedConditions |-> <<>>, ruleKey |-> "", description |-> "",
     citation |-> NoCitation, threw |-> FALSE]

\* the RuleEvaluationResult built from the root group's verdict g
ruleResult(r, g) ==
    IF g.threw THEN [NoEvaluation EXCEPT !.threw = TRUE]
    ELSE [outcome |-> r.outcome,
          matched |-> g.passed,
          failedConditions |-> g.failedConditions,
          passedConditions |-> g.passedConditions,
          ruleKey |-> r.key,
          description |-> r.description,
          citation |-> r.citation,
          threw |-> FALSE]

\* RulesEngine.evaluateRule
evaluateRule(r, ins) == ruleResult(r, evaluateConditionGroup(r.conditions, ins))

(***************************************************************************)
(*            RULES ENGINE: evaluateRule ON BOUNDED RULE TREES             *)
(***************************************************************************)

\* bound: the number of nodes (conditions and groups) of a rule's condition tree
MaxNodes == 4

S_pitbull == <<"p", "i", "t", "b", "u", "l", "l">>
S_rottweiler == <<"r", "o", "t", "t", "w", "e", "i", "l", "e", "r">>
S_poodle == <<"p", "o", "o", "d", "l", "e">>

\* the leaf conditions the trees are built from: the two kinds of check of the
\* engine's tests and of the seeded pit bull rule, and a check whose operator is
\* none of the eight
LeafConditions_Permit ==
    [field |-> "hasPermit", operator |-> "equals", value |-> Bool(TRUE),
     message |-> "Permit is required"]
LeafConditions_Breed ==
    [field |-> "breed", operator |-> "in",
     value |-> Arr(<<Str(S_pitbull), Str(S_rottweiler)>>), message |-> NoMessage]
LeafConditions_Unknown ==
    [field |-> "breed", operator |-> "between", value |-> Num(1),
     message |-> NoMessage]

LeafConditions ==
    {LeafConditions_Permit, LeafConditions_Breed, LeafConditions_Unknown}

\* the input sets the rules are evaluated against
InputSets ==
    {[f \in D |-> IF f = "hasPermit" THEN Bool(b) ELSE Str(s)] :
        D \in SUBSET {"hasPermit", "breed"}, b \in BOOLEAN,
        s \in {S_pitbull, S_poodle}}

RECURSIVE GroupsOfSize(_)
RECURSIVE ChecksOfTotalSize(_)

\* a single check (condition or nested group) of n nodes
CheckOfSize(n) ==
    IF n = 1 THEN LeafConditions \cup GroupsOfSize(1) ELSE GroupsOfSize(n)

\* the lists of checks with k nodes in all
ChecksOfTotalSize(k) ==
    IF k = 0 THEN {<<>>}
    ELSE UNION {{<<c>> \o rest : c \in CheckOfSize(j),
                                 rest \in ChecksOfTotalSize(k - j)} : j \in 1..k}

\* the ConditionGroups of n nodes, the group itself counted
GroupsOfSize(n) ==
    {[type |-> t, checks |-> cs] : t \in {"all", "any"},
                                   cs \in ChecksOfTotalSize(n - 1)}

ConditionTrees == UNION {GroupsOfSize(n) : n \in 1..MaxNodes}

\* the rule around a condition tree (the fields of the seeded rule)
RuleOf(tree) ==
    [key |-> "pitbull_ownership", description |-> "Pit bull ownership requirements",
     outcome |-> "CONDITIONAL", conditions |-> tree,
     citation |-> "Sec. 701-1", priority |-> 100]

EngineInit ==
    /\ rule \in {RuleOf(tree) : tree \in ConditionTrees}
    /\ inputs \in InputSets
    /\ engPc = "ready"
    /\ evalResult = NoEvaluation
    /\ GatewayParked
    /\ OutcomeParked
    /\ ConversationParked
    /\ PipelineParked
    /\ AuxParked

\* engine.evaluateRule(rule, inputs)
EvaluateRule ==
    /\ engPc = "ready"
    /\ evalResult' = evaluateRule(rule, inputs)
    /\ engPc' = "evaluated"
    /\ UNCHANGED <<rule, inputs>>

EngineNext == EvaluateRule /\ UNCHANGED <<gwVars, outVars, convVars, plVars, auxVars>>

EngineSpec == EngineInit /\ [][EngineNext]_vars

(***************************************************************************)
(*                         ENGINE: CLAIM C1                                *)
(***************************************************************************)

\* the recursive reading of a condition tree: a condition is satisfied when
\* evaluateCondition passes it, an `all` group when each child is, an `any` group
\* when at least one child is
RECURSIVE Satisfied(_, _)
Satisfied(check, ins) ==
    IF IsGroup(check)
    THEN IF check.type = "all"
         THEN \A i \in 1..Len(check.checks) : Satisfied(check.checks[i], ins)
         ELSE \E i \in 1..Len(check.checks) : Satisfied(check.checks[i], ins)
    ELSE evaluateCondition(check, ins).passed

\* every group of the tree holds at least one check
RECURSIVE NoEmptyGroup(_)
NoEmptyGroup(check) ==
    IsGroup(check) =>
        /\ Len(check.checks) > 0
        /\ \A i \in 1..Len(check.checks) : NoEmptyGroup(check.checks[i])

\* C1: for every rule (without empty groups) whose evaluation raises no error,
\* evaluateRule returns matched = true exactly when the root group is satisfied
\* under the recursive all/any semantics, nested groups of mixed type included.
C1_MatchedIffSatisfied ==
    (engPc = "evaluated" /\ ~evalResult.threw /\ NoEmptyGroup(rule.conditions)) =>
        (evalResult.matched <=> Satisfied(rule.conditions, inputs))

(***************************************************************************)
(*            RULES ENGINE: determineOutcome ON BOUNDED RESULT LISTS       *)
(***************************************************************************)

\* bound: the length of the results list
MaxResults == 2

\* results.filter((r) => r.matched)
RECURSIVE matchedOnly(_)
matchedOnly(rs) ==
    IF Len(rs) = 0 THEN <<>>
    ELSE (IF rs[1].matched THEN <<rs[1]>> ELSE <<>>) \o matchedOnly(Tail(rs))

\* matchedResults.some((r) => r.outcome === o)
someOutcome(rs, o) == \E i \in 1..Len(rs) : rs[i].outcome = o

\* mutants of determineOutcome: the checks for RESTRICTED and PROHIBITED in the
\* wrong order; the filter on matched left out
determineOutcome_RestrictedFirst(rs) ==
    LET matchedResults == matchedOnly(rs)
    IN IF Len(matchedResults) = 0 THEN "ALLOWED"
       ELSE IF someOutcome(matchedResults, "RESTRICTED") THEN "RESTRICTED"
       ELSE IF someOutcome(matchedResults, "PROHIBITED") THEN "PROHIBITED"
       ELSE IF someOutcome(matchedResults, "CONDITIONAL") THEN "CONDITIONAL"
       ELSE "ALLOWED"

determineOutcome_NoMatchedFilter(rs) ==
    IF Len(rs) = 0 THEN "ALLOWED"
    ELSE IF someOutcome(rs, "PROHIBITED") THEN "PROHIBITED"
    ELSE IF someOutcome(rs, "RESTRICTED") THEN "RESTRICTED"
    ELSE IF someOutcome(rs, "CONDITIONAL") THEN "CONDITIONAL"
    ELSE "ALLOWED"

\* mutant of determineOutcome: the outcome of the first matched result
determineOutcome_FirstMatched(rs) ==
    IF Len(matchedOnly(rs)) = 0 THEN "ALLOWED" ELSE matchedOnly(rs)[1].outcome

\* RulesEngine.determineOutcome
determineOutcome(rs) ==
    LET matchedResults == matchedOnly(rs)
    IN IF Len(matchedResults) = 0 THEN "ALLOWED"
       ELSE IF someOutcome(matchedResults, "PROHIBITED") THEN "PROHIBITED"
       ELSE IF someOutcome(matchedResults, "RESTRICTED") THEN "RESTRICTED"
       ELSE IF someOutcome(matchedResults, "CONDITIONAL") THEN "CONDITIONAL"
       ELSE "ALLOWED"

\* a failedConditions entry made of a condition's own message
MessageText(m) == [text |-> m, field |-> "", operator |-> "", value |-> Undefined]

\* a piece of a template string: literal text, or an interpolated value
Literal(s) == MessageText(s)
Interpolated(v) == [text |-> "", field |-> "", operator |-> "", value |-> v]

\* primary.failedConditions.join(', ') from entry i on
RECURSIVE joinConditions(_, _)
joinConditions(fc, i) ==
    IF i > Len(fc) THEN <<>>
    ELSE (IF i > 1 THEN <<Literal(", ")>> ELSE <<>>)
         \o <<fc[i]>> \o joinConditions(fc, i + 1)

\* primary.citation ? `${label}${primary.citation}.` : ''
citationPart(label, citation) ==
    IF citation # NoCitation
    THEN <<Literal(label), Literal(citation), Literal(".")>>
    ELSE <<>>

\* mutant of rationaleFor: the citation left out
rationaleFor_NoCitation(outcome, r) ==
    CASE outcome = "PROHIBITED" ->
             <<Literal("This is prohibited under "), Literal(r.description),
               Literal(". ")>>
      [] outcome = "RESTRICTED" ->
             <<Literal("This is restricted. "), Literal(r.description),
               Literal(". ")>>
      [] outcome = "CONDITIONAL" ->
             <<Literal("This is allowed with conditions. "),
               Interpolated(Num(Len(r.failedConditions))),
               Literal(" requirement(s) must be met: ")>>
             \o joinConditions(r.failedConditions, 1) \o <<Literal(". ")>>
      [] outcome = "ALLOWED" ->
             <<Literal("This is allowed under current regulations.")>>
      [] OTHER -> <<Literal("Unable to determine outcome.")>>

\* the switch of generateRationale on the outcome, for the result `primary`; the
\* text as the sequence of the template's pieces
rationaleFor(outcome, r) ==
    CASE outcome = "PROHIBITED" ->
             <<Literal("This is prohibited under "), Literal(r.description),
               Literal(". ")>> \o citationPart("See ", r.citation)
      [] outcome = "RESTRICTED" ->
             <<Literal("This is restricted. "), Literal(r.description),
               Literal(". ")>> \o citationPart("Citation: ", r.citation)
      [] outcome = "CONDITIONAL" ->
             <<Literal("This is allowed with conditions. "),
               Interpolated(Num(Len(r.failedConditions))),
               Literal(" requirement(s) must be met: ")>>
             \o joinConditions(r.failedConditions, 1) \o <<Literal(". ")>>
             \o citationPart("Citation: ", r.citation)
      [] outcome = "ALLOWED" ->
             <<Literal("This is allowed under current regulations.")>>
      [] OTHER -> <<Literal("Unable to determine outcome.")>>

NoRestrictionsText ==
    <<Literal("No restrictions found. This action is allowed under current regulations.")>>

\* mutant of primaryOf: the last matched result
primaryOf_LastMatched(matchedResults) ==
    matchedResults[Len(matchedResults)]

\* const primary = matchedResults[0]
primaryOf(matchedResults) ==
    matchedResults[1]

\* RulesEngine.generateRationale
generateRationale(outcome, rs) ==
    IF Len(matchedOnly(rs)) = 0 THEN NoRestrictionsText
    ELSE rationaleFor(outcome, primaryOf(matchedOnly(rs)))

RuleKeys == <<"rule1", "rule2", "rule3", "rule4">>
Descriptions == <<"Rule 1", "Rule 2", "Rule 3", "Rule 4">>

\* the results the lists are drawn from, as the engine's tests write them: any
\* outcome, matched or not, with or without citation and failed conditions
ResultShapes ==
    [outcome : RuleOutcomes, matched : BOOLEAN,
     failedConditions : {<<>>, <<MessageText("Need permit"),
                                 MessageText("Need insurance")>>},
     citation : {NoCitation, "Code Section 123"}]

\* the i-th result of a list: rule i, of the given shape
ResultAt(shape, i) ==
    [outcome |-> shape.outcome, matched |-> shape.matched,
     failedConditions |-> shape.failedConditions, passedConditions |-> <<>>,
     ruleKey |-> RuleKeys[i], description |-> Descriptions[i],
     citation |-> shape.citation, threw |-> FALSE]

\* the list of results of the given shapes
ResultList(shapes) == [i \in 1..Len(shapes) |-> ResultAt(shapes[i], i)]

OutcomeInit ==
    /\ \E n \in 0..MaxResults :
          \E shapes \in [1..n -> ResultShapes] : results = ResultList(shapes)
    /\ outPc = "ready"
    /\ finalOutcome = "none"
    /\ rationale = <<>>
    /\ GatewayParked
    /\ EngineParked
    /\ ConversationParked
    /\ PipelineParked
    /\ AuxParked

\* engine.determineOutcome(results)
DetermineOutcome ==
    /\ outPc = "ready"
    /\ finalOutcome' = determineOutcome(results)
    /\ outPc' = "determined"
    /\ UNCHANGED <<results, rationale>>

\* engine.generateRationale(outcome, results) with the outcome just determined
GenerateRationale ==
    /\ outPc = "determined"
    /\ rationale' = generateRationale(finalOutcome, results)
    /\ outPc' = "explained"
    /\ UNCHANGED <<results, finalOutcome>>

OutcomeNext ==
    \/ DetermineOutcome /\ UNCHANGED <<gwVars, engVars, convVars, plVars, auxVars>>
    \/ GenerateRationale /\ UNCHANGED <<gwVars, engVars, convVars, plVars, auxVars>>

OutcomeSpec == OutcomeInit /\ [][OutcomeNext]_vars

(***************************************************************************)
(*                       ENGINE: CLAIMS C4, C5                             *)
(***************************************************************************)

\* the fixed order PROHIBITED > RESTRICTED > CONDITIONAL > ALLOWED
Restrictiveness(o) ==
    CASE o = "PROHIBITED" -> 4
      [] o = "RESTRICTED" -> 3
      [] o = "CONDITIONAL" -> 2
      [] o = "ALLOWED" -> 1

MatchedOutcomes == {results[i].outcome : i \in {j \in 1..Len(results) : results[j].matched}}

\* C4: when at least one result is matched, determineOutcome returns the most
\* restrictive outcome among the matched results (so a matched PROHIBITED always
\* wins); the unmatched results do not enter.
C4_MostRestrictiveMatched ==
    (outPc = "determined" /\ MatchedOutcomes # {}) =>
        /\ finalOutcome \in MatchedOutcomes
        /\ \A o \in MatchedOutcomes : Restrictiveness(o) <= Restrictiveness(finalOutcome)
        /\ "PROHIBITED" \in MatchedOutcomes => finalOutcome = "PROHIBITED"

\* C4 witness: a matched ALLOWED result listed before a matched PROHIBITED one.
C4_Witness ==
    /\ outPc = "determined"
    /\ Len(results) = 2
    /\ results[1].matched /\ results[1].outcome = "ALLOWED"
    /\ results[2].matched /\ results[2].outcome = "PROHIBITED"
    /\ finalOutcome = "PROHIBITED"

\* C5: determineOutcome returns ALLOWED whenever no result is matched: for the
\* empty list and for lists of unmatched results, whatever outcome they declare.
C5_AllowedWhenNoneMatched ==
    (outPc = "determined" /\ MatchedOutcomes = {}) => finalOutcome = "ALLOWED"

\* C5 witness: unmatched PROHIBITED and RESTRICTED results, outcome ALLOWED.
C5_Witness ==
    /\ outPc = "determined"
    /\ Len(results) = 2
    /\ ~results[1].matched /\ results[1].outcome = "PROHIBITED"
    /\ ~results[2].matched /\ results[2].outcome = "RESTRICTED"
    /\ finalOutcome = "ALLOWED"

(***************************************************************************)
(*                    ENGINE: CLAIMS C16, C17, C18                         *)
(***************************************************************************)

\* the first matched result in list order
FirstMatched ==
    results[CHOOSE i \in 1..Len(results) :
                results[i].matched /\ \A j \in 1..(i - 1) : ~results[j].matched]

RationalePieces == {rationale[i] : i \in 1..Len(rationale)}

\* C16: whenever some result is matched, the description and citation the
\* rationale uses are those of a matched result whose declared outcome is the final
\* outcome determineOutcome returned for the same results.
C16_RationaleCitesGoverningRule ==
    (outPc = "explained" /\ MatchedOutcomes # {}) =>
        \E i \in 1..Len(results) :
            /\ results[i].matched
            /\ results[i].outcome = finalOutcome
            /\ rationale = rationaleFor(finalOutcome, results[i])

\* C17: the rationale is built from the first matched result in list order only:
\* its description and citation and, for CONDITIONAL, the count and every one of
\* its failedConditions; with no matched result it is the fixed 'no restrictions
\* found' text.
C17_RationaleFromFirstMatched ==
    outPc = "explained" =>
        IF MatchedOutcomes = {} THEN rationale = NoRestrictionsText
        ELSE LET first == FirstMatched
                 pieces == RationalePieces
             IN /\ rationale = rationaleFor(finalOutcome, first)
                /\ finalOutcome \in {"PROHIBITED", "RESTRICTED"} =>
                       Literal(first.description) \in pieces
                /\ finalOutcome = "CONDITIONAL" =>
                       /\ Interpolated(Num(Len(first.failedConditions))) \in pieces
                       /\ \A k \in 1..Len(first.failedConditions) :
                              first.failedConditions[k] \in pieces

\* C17 witness: two matched results, the first with two failed conditions and the
\* second with none, final outcome CONDITIONAL.
C17_Witness ==
    /\ outPc = "explained"
    /\ Len(results) = 2
    /\ results[1].matched /\ results[2].matched
    /\ Len(results[1].failedConditions) = 2
    /\ Len(results[2].failedConditions) = 0
    /\ finalOutcome = "CONDITIONAL"
    /\ Interpolated(Num(2)) \in RationalePieces

\* C18: for a final outcome of CONDITIONAL, PROHIBITED or RESTRICTED whose basis
\* result (the first matched one) has a non-empty citation, the rationale contains
\* that citation text unchanged.
C18_RationaleContainsCitation ==
    (/\ outPc = "explained"
     /\ MatchedOutcomes # {}
     /\ finalOutcome \in {"CONDITIONAL", "PROHIBITED", "RESTRICTED"}
     /\ FirstMatched.citation # NoCitation) =>
        Literal(FirstMatched.citation) \in RationalePieces

\* C18 witness: a matched PROHIBITED result with a citation, and the citation in
\* the rationale.
C18_Witness ==
    /\ outPc = "explained"
    /\ Len(results) >= 1
    /\ results[1].matched
    /\ results[1].outcome = "PROHIBITED"
    /\ results[1].citation = "Code Section 123"
    /\ Literal("Code Section 123") \in RationalePieces

(***************************************************************************)
(*          RULES ENGINE: THE EVALUATION OF A RULE SET, REPEATED           *)
(***************************************************************************)
\* The steps "evaluate each rule, determine the final outcome, generate the
\* rationale" of evaluateRules and of POST /api/decisions, run on a loaded rule
\* list and the request's inputs, and run again on the same list and inputs.

\* bounds: the rules of the rule set, the evaluations of it
MaxRules == 2
MaxRuns == 2

\* the condition trees of the rule set's rules: the breed and a required permit,
\* as in the seeded rule, an any group (which can match with a failed
\* condition), a check with an unknown operator
PermitRequired ==
    [type |-> "all", checks |-> <<LeafConditions_Breed, LeafConditions_Permit>>]
PermitOrBreed ==
    [type |-> "any", checks |-> <<LeafConditions_Permit, LeafConditions_Breed>>]
Malformed == [type |-> "all", checks |-> <<LeafConditions_Unknown>>]

\* the rules a rule set is drawn from, citation null for some
RuleCatalogue ==
    {[key |-> o, description |-> o, outcome |-> o, conditions |-> c,
      citation |-> (IF o \in {"PROHIBITED", "CONDITIONAL"} THEN "Sec. 701-1"
                    ELSE NoCitation),
      priority |-> 100] : o \in RuleOutcomes, c \in {PermitRequired, PermitOrBreed}}
    \cup {[key |-> "malformed", description |-> "malformed", outcome |-> "ALLOWED",
           conditions |-> Malformed, citation |-> NoCitation, priority |-> 100]}

RuleLists == UNION {[1..n -> RuleCatalogue] : n \in 0..MaxRules}

\* a run that ended with an exception thrown by evaluateRule
ThrownRun(rs, ins) ==
    [rules |-> rs, inputs |-> ins, threw |-> TRUE, results |-> <<>>,
     outcome |-> "none", rationale |-> <<>>]

\* mutant of evaluateRuleset: an engine that keeps its results between calls
evaluateRuleset_Accumulating(rs, ins) ==
    (IF Len(runs) > 0 THEN runs[Len(runs)].results ELSE <<>>)
        \o [i \in 1..Len(rs) |-> evaluateRule(rs[i], ins)]

\* ruleset.rules.map(rule => rulesEngine.evaluateRule(rule, inputs))
evaluateRuleset(rs, ins) ==
    [i \in 1..Len(rs) |-> evaluateRule(rs[i], ins)]

\* the outcome and rationale for the per-rule results
decide(rs, ins, rr) ==
    IF \E i \in 1..Len(rr) : rr[i].threw THEN ThrownRun(rs, ins)
    ELSE [rules |-> rs, inputs |-> ins, threw |-> FALSE, results |-> rr,
          outcome |-> determineOutcome(rr),
          rationale |-> generateRationale(determineOutcome(rr), rr)]

\* one evaluation of the rule list rs on the inputs ins
runOf(rs, ins) == decide(rs, ins, evaluateRuleset(rs, ins))

\* what the two findFirst calls of evaluateRules can give: no jurisdiction row,
\* no active ruleset of the category, or a ruleset
Lookups == {"no_jurisdiction", "no_ruleset", "found"}

\* mutant of evaluateRules: only the ruleset's absence is an error
evaluateRules_EmptyIsEvaluated(lk, rs, ins) ==
    IF lk # "found" THEN ThrownRun(rs, ins) ELSE runOf(rs, ins)

\* evaluateRules: it throws without a jurisdiction row, without a ruleset and
\* for a ruleset whose rules (of the subcategory) are none
evaluateRules(lk, rs, ins) ==
    IF lk # "found" \/ Len(rs) = 0 THEN ThrownRun(rs, ins) ELSE runOf(rs, ins)

PipelineInit ==
    /\ lookup \in Lookups
    /\ ruleset \in (IF lookup = "found" THEN RuleLists ELSE {<<>>})
    /\ plInputs \in InputSets
    /\ runs = <<>>
    /\ GatewayParked
    /\ EngineParked
    /\ OutcomeParked
    /\ ConversationParked
    /\ AuxParked

\* the rule set is evaluated: nothing is assigned to the rules or to the inputs
Evaluate ==
    /\ Len(runs) < MaxRuns
    /\ runs' = Append(runs, evaluateRules(lookup, ruleset, plInputs))
    /\ UNCHANGED <<lookup, ruleset, plInputs>>

PipelineNext == Evaluate /\ UNCHANGED <<gwVars, engVars, outVars, convVars, auxVars>>

PipelineSpec == PipelineInit /\ [][PipelineNext]_vars

(***************************************************************************)
(*                         BRIDGE: CLAIM C31                               *)
(***************************************************************************)

\* C31: evaluateRules ends with an error and without outcome whenever there is
\* no active ruleset of the category or the ruleset has no rules; it does not
\* return ALLOWED then.
C31_NotConfiguredRaises ==
    \A k \in 1..Len(runs) :
        (lookup # "found" \/ Len(ruleset) = 0) =>
            /\ runs[k].threw
            /\ runs[k].outcome = "none"
            /\ runs[k].outcome # "ALLOWED"

\* C31 witness: a ruleset without rules was evaluated, and the evaluation threw.
C31_Witness ==
    /\ lookup = "found"
    /\ Len(ruleset) = 0
    /\ Len(runs) >= 1
    /\ runs[1].threw

(***************************************************************************)
(*                         ENGINE: CLAIM C21                               *)
(***************************************************************************)

\* the tree holds, at some depth, a condition whose operator is none of the eight
RECURSIVE HasUnknownOperator(_)
HasUnknownOperator(check) ==
    IF IsGroup(check)
    THEN \E i \in 1..Len(check.checks) : HasUnknownOperator(check.checks[i])
    ELSE check.operator \notin Operators

\* C21: a rule whose condition tree holds, at any depth and in a group of either
\* type, a condition with an operator outside the eight known ones raises an
\* error when evaluated: it is not reported as matched or unmatched, and the
\* evaluation of a rule set holding it ends without an outcome.
C21_UnknownOperatorRaises ==
    (engPc = "evaluated" /\ HasUnknownOperator(rule.conditions)) =>
        /\ evalResult.threw
        /\ ~evalResult.matched
        /\ evalResult.outcome = "none"
        /\ runOf(<<rule>>, inputs) = ThrownRun(<<rule>>, inputs)

\* C21 witness: the unknown operator sits in an any group nested in an all group,
\* after a condition of that any group that passed, and the evaluation threw.
C21_Witness ==
    /\ engPc = "evaluated"
    /\ rule.conditions =
           [type |-> "all",
            checks |-> <<[type |-> "any",
                          checks |-> <<LeafConditions_Permit,
                                       LeafConditions_Unknown>>]>>]
    /\ evaluateCondition(LeafConditions_Permit, inputs).passed
    /\ evalResult.threw

(***************************************************************************)
(*                       ENGINE: CLAIMS C14, C15                           *)
(***************************************************************************)

PriorityValues == {1, 100}

\* the rule list rs in the order p, with the priorities q
Reordered(rs, p, q) ==
    [i \in 1..Len(rs) |-> [rs[p[i]] EXCEPT !.priority = q[i]]]

Orders(n) == {p \in [1..n -> 1..n] : \A i, j \in 1..n : p[i] = p[j] => i = j}

\* C15: the outcome does not depend on the rules' priority values nor on the order
\* of the results: every order of the same rules, under every assignment of
\* priorities, gives the outcome the evaluation returned.
C15_OutcomeIgnoresOrderAndPriority ==
    \A k \in 1..Len(runs) :
        ~runs[k].threw =>
            \A p \in Orders(Len(ruleset)), q \in [1..Len(ruleset) -> PriorityValues] :
                determineOutcome(evaluateRuleset(Reordered(ruleset, p, q), plInputs))
                    = runs[k].outcome

\* C15 witness: two matched rules of different outcome were evaluated, the less
\* restrictive one first.
C15_Witness ==
    /\ Len(runs) >= 1
    /\ Len(ruleset) = 2
    /\ ~runs[1].threw
    /\ runs[1].results[1].matched /\ runs[1].results[1].outcome = "ALLOWED"
    /\ runs[1].results[2].matched /\ runs[1].results[2].outcome = "PROHIBITED"
    /\ runs[1].outcome = "PROHIBITED"

(***************************************************************************)
(*        RULES ENGINE: evaluateCondition ON EVERY OPERATOR                *)
(***************************************************************************)
\* evaluateRule on rules of one condition, for each of the eight operators, with
\* expected values and field values of every JSON type, the field present or not.

S_abc == <<"a", "b", "c">>
S_ABCD == <<"A", "B", "C", "D">>
S_10 == <<"1", "0">>
S_5 == <<"5">>
S_open == <<"(">>

\* condition.value: a number, strings (a word, digits, a pattern RegExp rejects),
\* a boolean, an array
ExpectedValues ==
    {Num(5), Str(S_abc), Str(S_5), Str(S_open), Bool(TRUE),
     Arr(<<Str(S_abc), Num(5)>>)}

\* inputs[condition.field] when the field is there
FieldValues ==
    {Num(5), Num(10), Str(S_abc), Str(S_ABCD), Str(S_10), Str(<<>>), Bool(TRUE)}

\* the inputs: without the field, or with it
FieldInputs == {<<>>} \cup {[f \in {"answer"} |-> v] : v \in FieldValues}

SingleConditions ==
    {[field |-> "answer", operator |-> op, value |-> v, message |-> NoMessage] :
        op \in Operators, v \in ExpectedValues}

ConditionInit ==
    /\ rule \in {RuleOf([type |-> "all", checks |-> <<c>>]) : c \in SingleConditions}
    /\ inputs \in FieldInputs
    /\ engPc = "ready"
    /\ evalResult = NoEvaluation
    /\ GatewayParked
    /\ OutcomeParked
    /\ ConversationParked
    /\ PipelineParked
    /\ AuxParked

ConditionSpec == ConditionInit /\ [][EngineNext]_vars

(***************************************************************************)
(*                       ENGINE: CLAIMS C19, C20                           *)
(***************************************************************************)

TheCondition == rule.conditions.checks[1]
TheFieldValue == Lookup(inputs, TheCondition.field)

\* the JSON types of the values an expected value stands for: its own, or for an
\* array those of its elements
ExpectedTypes(value) ==
    IF value.t = "array" THEN {value.v[i].t : i \in 1..Len(value.v)} ELSE {value.t}

\* the field is absent, or its value is of none of the expected types
AbsentOrMismatched ==
    \/ TheCondition.field \notin DOMAIN inputs
    \/ TheFieldValue.t \notin ExpectedTypes(TheCondition.value)

\* C19: for every operator, a condition whose field is absent from the inputs or
\* holds a value of a type other than the expected value's is not passed, and no
\* error is raised.
C19_MismatchNeverPasses ==
    (engPc = "evaluated" /\ AbsentOrMismatched) =>
        (~evalResult.threw /\ ~evalResult.matched)

\* a value Number() turns into NaN: undefined, or a string that is not empty and
\* not an optionally signed run of digits
NotANumber(x) ==
    \/ x.t = "undefined"
    \/ x \in {Str(S_abc), Str(S_ABCD), Str(S_open)}

\* C20: for greaterThan and lessThan, when either operand cannot be coerced to a
\* number (a non-numeric string, a missing field), the condition is not passed and
\* no exception is raised.
C20_UncoercibleNeverPasses ==
    (/\ engPc = "evaluated"
     /\ TheCondition.operator \in {"greaterThan", "lessThan"}
     /\ (NotANumber(TheFieldValue) \/ NotANumber(TheCondition.value))) =>
        (~evalResult.threw /\ ~evalResult.matched)

\* C20 witness: lessThan 5 evaluated on inputs without the field.
C20_Witness ==
    /\ engPc = "evaluated"
    /\ TheCondition.operator = "lessThan"
    /\ TheCondition.value = Num(5)
    /\ inputs = <<>>
    /\ ~evalResult.threw
    /\ ~evalResult.matched

(***************************************************************************)
(*          CONVERSATION ORCHESTRATOR AND THE QUERY ENDPOINT               *)
(***************************************************************************)
\* One conversation and one anonymous caller (a browser fingerprint, no session).
\* A request is one action: the handler runs to its response. What the matcher
\* and the evaluation bridge answer in a turn is chosen by the environment at the
\* point of the call.

\* bounds: the turns of the conversation, the matches matchCategory returns
MaxTurns == 3
MaxMatches == 2

\* FREE_QUERY_LIMIT (its default)
FREE_QUERY_LIMIT == 3

\* the auto-accept threshold 0.85, confidences counted in hundredths
AutoAcceptConfidence == 85

\* a jurisdiction, category or subcategory not set (undefined / null)
Unset == "unset"

\* the row before createConversation has run
NoConversation ==
    [exists |-> FALSE, jurisdiction |-> Unset, category |-> Unset,
     subcategory |-> Unset, collectedInputs |-> <<>>, status |-> "none"]

\* the fields of the context a turn can assign
ctxView(ctx) ==
    [jurisdiction |-> ctx.jurisdiction, category |-> ctx.category,
     subcategory |-> ctx.subcategory, requiredInputs |-> ctx.requiredInputs,
     collectedInputs |-> ctx.collectedInputs, status |-> ctx.status]

NoTurn ==
    [type |-> "none", message |-> [kind |-> "none", about |-> ""],
     ctxStatus |-> "none", evalInvoked |-> FALSE, evalKeys |-> {},
     extractCalled |-> FALSE, extractMissing |-> {}, extracted |-> <<>>,
     collectedBefore |-> <<>>, collectedAfter |-> <<>>]

\* what detectJurisdiction can return: null, or the name of a jurisdiction row
JurisdictionAnswers == {Unset, "Cincinnati, OH"}

\* the rule categories of the jurisdiction's active rulesets, with the
\* requiredInputs matchCategory collects from their rules and the first canonical
\* question of their first rule
CategoryCatalogue ==
    {[category |-> "animals", subcategory |-> "pitbull_ownership",
      requiredInputs |-> <<"breed", "hasPermit">>,
      canonicalQuestion |-> "Can I own a pit bull?"],
     [category |-> "zoning", subcategory |-> "fence_height",
      requiredInputs |-> <<"fenceHeight">>,
      canonicalQuestion |-> "How tall can my fence be?"]}

InputFields == {"breed", "hasPermit", "fenceHeight"}

\* confidences (hundredths) a returned match can carry: matchCategory drops those
\* under 0.5
Confidences == {60, 85, 90}

RuleMatches ==
    {[category |-> c.category, subcategory |-> c.subcategory, confidence |-> k,
      requiredInputs |-> c.requiredInputs,
      canonicalQuestion |-> c.canonicalQuestion] : c \in CategoryCatalogue,
                                                   k \in Confidences}

\* what matchCategory can return: matches in descending order of confidence
MatchListsUpTo(k) ==
    UNION {{ms \in [1..n -> RuleMatches] :
              \A i \in 1..(n - 1) : ms[i].confidence >= ms[i + 1].confidence} :
           n \in 0..k}
MatchLists == MatchListsUpTo(MaxMatches)

\* what extractInputs can return: the parsed JSON object of the completion, any
\* keys with any values
ExtractedValues == {"x", "y"}
Extractions == UNION {[D -> ExtractedValues] : D \in SUBSET InputFields}

\* the completions extractInputs can get: text with no {...} in it, text whose
\* {...} JSON.parse rejects, or text whose {...} parses to an object
NoJsonCompletion == [json |-> "none"]
BadJsonCompletion == [json |-> "invalid"]
Completions ==
    {NoJsonCompletion, BadJsonCompletion}
        \cup {[json |-> "object", object |-> ex] : ex \in Extractions}

\* extractInputs(userMessage, missingInputs, context) for the completion callAI
\* returned: the parsed object, or {} without a match or on a parse error
extractInputs(completion, missingInputs) ==
    IF completion.json = "object" THEN completion.object ELSE <<>>

\* what evaluateRules can do: throw (no jurisdiction row, no rules, a malformed
\* rule) or return an outcome
EvaluationAnswers == {"throw", "ALLOWED", "PROHIBITED"}

\* an awaited call that rejects: callAI with no provider left, a write the
\* database refuses
Rejected == "rejected"

\* what detectJurisdiction can do
DetectionAnswers == JurisdictionAnswers \cup {Rejected}

\* what matchCategory can do, for the lists it can return
MatchAnswers(lists) ==
    {[rejected |-> TRUE, matches |-> <<>>]}
        \cup {[rejected |-> FALSE, matches |-> ms] : ms \in lists}
NotCalled == [rejected |-> FALSE, matches |-> <<>>]

\* callAI rejecting inside extractInputs
RejectedCompletion == [json |-> "rejected"]
ExtractionAnswers == Completions \cup {RejectedCompletion}

\* what generateClarifyingQuestion, db.decision.create and the first
\* db.message.create for an assistant message can do
WriteAnswers == {"done", Rejected}

\* { ...a, ...b }
Spread(a, b) ==
    [f \in (DOMAIN a) \cup (DOMAIN b) |-> IF f \in DOMAIN b THEN b[f] ELSE a[f]]

\* requiredInputs.filter(input => !(input in collectedInputs))
missingIn(required, collected) ==
    SelectSeq(required, LAMBDA f : f \notin DOMAIN collected)

\* createConversation: the new row and the context built for it
createdRow ==
    [exists |-> TRUE, jurisdiction |-> Unset, category |-> Unset,
     subcategory |-> Unset, collectedInputs |-> <<>>, status |-> "active"]

createdContext ==
    [jurisdiction |-> Unset, category |-> Unset, subcategory |-> Unset,
     collectedInputs |-> <<>>, requiredInputs |-> <<>>, messages |-> <<>>,
     status |-> "active"]

\* loadConversation: the context built from the row and its messages
loadConversation(row, msgs) ==
    [jurisdiction |-> row.jurisdiction, category |-> row.category,
     subcategory |-> row.subcategory, collectedInputs |-> row.collectedInputs,
     requiredInputs |-> <<>>, messages |-> msgs, status |-> row.status]

\* updateConversation(context): the row after db.conversation.update
updateConversation(t) ==
    [t EXCEPT !.store = [exists |-> TRUE,
                         jurisdiction |-> t.ctx.jurisdiction,
                         category |-> t.ctx.category,
                         subcategory |-> t.ctx.subcategory,
                         collectedInputs |-> t.ctx.collectedInputs,
                         status |-> t.ctx.status]]

\* context.messages.push(m); await saveMessage(conversationId, m)
pushAndSave(t, m) ==
    [t EXCEPT !.ctx.messages = Append(@, m), !.messages = Append(@, m)]

\* an awaited call rejected: the exception leaves the function
raise(t, site) == [t EXCEPT !.done = TRUE, !.threw = TRUE, !.faulted = site]

NoFault == "none"

\* the first db.message.create for an assistant message is the one that rejects
firstSaveRejects(t) == t.firstSave = Rejected /\ ~t.saveTried

\* saveAssistantMessage(context, response.message); return response. The message
\* is pushed onto context.messages before db.message.create is awaited.
respond(t, type, msg, options) ==
    IF firstSaveRejects(t)
    THEN raise([t EXCEPT !.ctx.messages =
                            Append(@, [role |-> "assistant", content |-> msg]),
                         !.saveTried = TRUE],
               "saveAssistantMessage")
    ELSE [pushAndSave(t, [role |-> "assistant", content |-> msg])
             EXCEPT !.done = TRUE, !.saveTried = TRUE,
                    !.response = [type |-> type, message |-> msg,
                                  options |-> options]]

Msg(kind, about) == [kind |-> kind, about |-> about]

\* response.options left out
NoOptions == <<>>

\* a turn in progress: the context, the rows written so far, the response once
\* there is one, the exception once one is thrown
StartOfTurn(ctx, row, firstSave) ==
    [ctx |-> ctx, store |-> row, messages |-> messages, decisions |-> decisions,
     accepted |-> acceptedRequired, done |-> FALSE, threw |-> FALSE,
     firstSave |-> firstSave, saveTried |-> FALSE, faulted |-> NoFault,
     response |-> [type |-> "none", message |-> Msg("none", ""),
                   options |-> NoOptions],
     ctxBefore |-> ctxView(ctx), rowBefore |-> row,
     detectCalled |-> FALSE, detected |-> Unset,
     matchCalled |-> FALSE, matches |-> <<>>, collectEntered |-> FALSE,
     evalInvoked |-> FALSE, evalReturned |-> FALSE, evalKeys |-> {},
     extractCalled |-> FALSE, extractMissing |-> {}, extracted |-> <<>>,
     collectedBefore |-> <<>>, collectedAfter |-> <<>>]

\* mutant of processMessage: with no jurisdiction detected the turn goes on with
\* a default one
processMessage_DefaultJurisdiction(t0, j) ==
    LET t1 == pushAndSave(t0, [role |-> "user", content |-> Msg("user", "")])
    IN IF t1.ctx.jurisdiction = Unset
       THEN IF j = Rejected
            THEN raise([t1 EXCEPT !.detectCalled = TRUE], "detectJurisdiction")
            ELSE updateConversation(
                   [t1 EXCEPT !.detectCalled = TRUE, !.detected = j,
                              !.ctx.jurisdiction =
                                  IF j # Unset THEN j ELSE "Cincinnati, OH"])
       ELSE t1

\* processMessage up to the call of processWithJurisdiction; j is what
\* detectJurisdiction does (called only with the jurisdiction unset)
processMessage(t0, j) ==
    LET t1 == pushAndSave(t0, [role |-> "user", content |-> Msg("user", "")])
    IN IF t1.ctx.jurisdiction = Unset
       THEN IF j = Rejected
            THEN raise([t1 EXCEPT !.detectCalled = TRUE], "detectJurisdiction")
            ELSE IF j # Unset
            THEN updateConversation([t1 EXCEPT !.detectCalled = TRUE,
                                               !.detected = j,
                                               !.ctx.jurisdiction = j])
            ELSE respond([t1 EXCEPT !.detectCalled = TRUE],
                         "question", Msg("ask_jurisdiction", ""), NoOptions)
       ELSE t1

\* mutant of autoAccept: a confidence of exactly 0.85 is accepted
autoAccept_AtThreshold(ms) ==
    Len(ms) = 1 /\ ms[1].confidence >= AutoAcceptConfidence

\* the test for a single high-confidence match
autoAccept(ms) == Len(ms) = 1 /\ ms[1].confidence > AutoAcceptConfidence

\* mutant of optionsOf: every match is offered
optionsOf_AllMatches(ms) == [i \in 1..Len(ms) |-> ms[i].canonicalQuestion]

\* matches.slice(0, 3).map(m => m.canonicalQuestion)
optionsOf(ms) ==
    [i \in 1..(IF Len(ms) < 3 THEN Len(ms) ELSE 3) |-> ms[i].canonicalQuestion]

\* topMatch.subcategory || topMatch.category
topicOf(topMatch) ==
    IF topMatch.subcategory # Unset THEN topMatch.subcategory
    ELSE topMatch.category

YesNoOptions == <<"Yes", "No, something else">>

\* mutant of branchOnMatches: a single match is accepted whatever its
\* confidence
branchOnMatches_NoConfirmation(t, ms) ==
    IF Len(ms) = 0
    THEN respond(t, "error", Msg("no_rules", ""), NoOptions)
    ELSE IF Len(ms) = 1
    THEN updateConversation(
           [t EXCEPT !.ctx.category = ms[1].category,
                     !.ctx.subcategory = ms[1].subcategory,
                     !.ctx.requiredInputs = ms[1].requiredInputs,
                     !.accepted = ms[1].requiredInputs])
    ELSE respond(t, "clarification", Msg("which_matches", ""), optionsOf(ms))

\* mutant of branchOnMatches: the first of the matches is accepted, however many
\* there are and whatever its confidence
branchOnMatches_AcceptsTop(t, ms) ==
    IF Len(ms) = 0
    THEN respond(t, "error", Msg("no_rules", ""), NoOptions)
    ELSE updateConversation(
           [t EXCEPT !.ctx.category = ms[1].category,
                     !.ctx.subcategory = ms[1].subcategory,
                     !.ctx.requiredInputs = ms[1].requiredInputs,
                     !.accepted = ms[1].requiredInputs])

\* the branches of processWithJurisdiction for the matches ms matchCategory
\* returned
branchOnMatches(t, ms) ==
    IF Len(ms) = 0
    THEN respond(t, "error", Msg("no_rules", ""), NoOptions)
    ELSE IF autoAccept(ms)
    THEN updateConversation(
           [t EXCEPT !.ctx.category = ms[1].category,
                     !.ctx.subcategory = ms[1].subcategory,
                     !.ctx.requiredInputs = ms[1].requiredInputs,
                     !.accepted = ms[1].requiredInputs])
    ELSE IF Len(ms) > 1
    THEN respond(t, "clarification", Msg("which_matches", ""), optionsOf(ms))
    ELSE respond(t, "clarification",
                 Msg("are_you_asking_about", topicOf(ms[1])), YesNoOptions)

\* processWithJurisdiction up to the call of collectInputs; m is what
\* matchCategory does (called only with the category unset)
processWithJurisdiction(t, m) ==
    IF t.ctx.category = Unset
    THEN IF m.rejected
         THEN raise([t EXCEPT !.matchCalled = TRUE], "matchCategory")
         ELSE branchOnMatches([t EXCEPT !.matchCalled = TRUE,
                                        !.matches = m.matches], m.matches)
    ELSE t

\* mutant of nextInput: the last missing field is asked for
nextInput_Last(stillMissing) == stillMissing[Len(stillMissing)]

\* stillMissing[0]
nextInput(stillMissing) == stillMissing[1]

\* collectInputs once extractInputs has returned ex for the missing inputs; q is
\* what generateClarifyingQuestion does
mergeAndAsk(t, missingInputs, ex, q) ==
    LET t1 == updateConversation(
                [t EXCEPT !.ctx.collectedInputs = Spread(@, ex),
                          !.extracted = ex,
                          !.collectedAfter = Spread(t.ctx.collectedInputs, ex)])
        stillMissing == missingIn(missingInputs, t1.ctx.collectedInputs)
    IN IF Len(stillMissing) > 0
       THEN IF q = Rejected
            THEN raise(t1, "generateClarifyingQuestion")
            ELSE respond(t1, "question", Msg("ask_field", nextInput(stillMissing)),
                         NoOptions)
       ELSE t1

\* collectInputs once it has found inputs missing; completion is what the callAI
\* of extractInputs does
extractAndMerge(t, missingInputs, completion, q) ==
    IF completion = RejectedCompletion
    THEN raise(t, "extractInputs")
    ELSE mergeAndAsk(t, missingInputs, extractInputs(completion, missingInputs), q)

\* collectInputs up to the call of evaluateAndRespond (extractInputs is called
\* only with inputs missing)
collectInputs(t, completion, q) ==
    LET missingInputs == missingIn(t.ctx.requiredInputs, t.ctx.collectedInputs)
    IN IF Len(missingInputs) > 0
       THEN extractAndMerge(
              [t EXCEPT !.collectEntered = TRUE,
                        !.extractCalled = TRUE,
                        !.extractMissing =
                            {missingInputs[i] : i \in 1..Len(missingInputs)},
                        !.collectedBefore = t.ctx.collectedInputs,
                        !.collectedAfter = t.ctx.collectedInputs],
              missingInputs, completion, q)
       ELSE [t EXCEPT !.collectEntered = TRUE]

\* the catch block of evaluateAndRespond
catchEvaluation(t) ==
    respond([t EXCEPT !.done = FALSE, !.threw = FALSE],
            "error", Msg("evaluation_error", ""), NoOptions)

\* the try block of evaluateAndRespond from db.decision.create on; dc is what
\* db.decision.create does
recordAndReport(t, ev, dc) ==
    IF dc = Rejected
    THEN [t EXCEPT !.threw = TRUE, !.faulted = "decision.create"]
    ELSE respond([t EXCEPT !.decisions =
                              Append(@, [category |-> t.ctx.category,
                                         inputs |-> t.ctx.collectedInputs,
                                         outcome |-> ev])],
                 "result", Msg("result", ev), NoOptions)

\* what the try block leaves: its response, or the catch block's
caught(t) == IF t.threw THEN catchEvaluation(t) ELSE t

\* mutant of evaluateAndRespond: the status is set to completed and stored
\* before evaluateRules is called
evaluateAndRespond_CompletesFirst(t, ev, dc) ==
    IF ev # "throw"
    THEN caught(recordAndReport(
                  updateConversation(
                    [t EXCEPT !.evalInvoked = TRUE, !.evalReturned = TRUE,
                              !.evalKeys = DOMAIN t.ctx.collectedInputs,
                              !.ctx.status = "completed"]), ev, dc))
    ELSE catchEvaluation(
           updateConversation(
             [t EXCEPT !.evalInvoked = TRUE,
                       !.evalKeys = DOMAIN t.ctx.collectedInputs,
                       !.ctx.status = "completed"]))

\* evaluateAndRespond; ev is what evaluateRules does
evaluateAndRespond(t, ev, dc) ==
    IF ev # "throw"
    THEN caught(recordAndReport(
                  updateConversation(
                    [t EXCEPT !.evalInvoked = TRUE, !.evalReturned = TRUE,
                              !.evalKeys = DOMAIN t.ctx.collectedInputs,
                              !.ctx.status = "completed"]), ev, dc))
    ELSE catchEvaluation([t EXCEPT !.evalInvoked = TRUE,
                                   !.evalKeys = DOMAIN t.ctx.collectedInputs])

\* the messages a turn added to a list that held n before
appendedTo(list, n) == SubSeq(list, n + 1, Len(list))

\* what a request is seen to answer: the response's type, or 500 when
\* processMessage threw
answered(t) == IF t.threw THEN "http500" ELSE t.response.type

\* mutant of incrementUsage: every request processed is counted
incrementUsage_EveryTurn(count, type) == count + 1

\* if (response.type === 'result') await incrementUsage(userId, fingerprint),
\* for an anonymous caller: the upsert that adds one to queryCount
incrementUsage(count, type) == IF type = "result" THEN count + 1 ELSE count

\* the rows after a turn, and incrementUsage for a result
CommitRows(t) ==
    /\ store' = t.store
    /\ messages' = t.messages
    /\ decisions' = t.decisions
    /\ acceptedRequired' = t.accepted
    /\ lastTurn' = [type |-> answered(t), message |-> t.response.message,
                    ctxStatus |-> t.ctx.status, evalInvoked |-> t.evalInvoked,
                    evalKeys |-> t.evalKeys, extractCalled |-> t.extractCalled,
                    extractMissing |-> t.extractMissing, extracted |-> t.extracted,
                    collectedBefore |-> t.collectedBefore,
                    collectedAfter |-> t.collectedAfter]
    /\ usageCount' = incrementUsage(usageCount, answered(t))
    /\ turns' = turns + 1

\* a turn of a conversation followed over several requests
Commit(t) == CommitRows(t) /\ UNCHANGED observed

\* a turn studied on its own: everything the call did is recorded
Observe(t) ==
    /\ CommitRows(t)
    /\ observed' = [type |-> answered(t), response |-> t.response,
                    faulted |-> t.faulted,
                    ctxBefore |-> t.ctxBefore, ctxAfter |-> ctxView(t.ctx),
                    rowBefore |-> t.rowBefore,
                    ctxAppended |-> appendedTo(t.ctx.messages, Len(messages)),
                    rowsAppended |-> appendedTo(t.messages, Len(messages)),
                    detectCalled |-> t.detectCalled, detected |-> t.detected,
                    matchCalled |-> t.matchCalled, matches |-> t.matches,
                    collectEntered |-> t.collectEntered,
                    extractCalled |-> t.extractCalled,
                    evalInvoked |-> t.evalInvoked,
                    evalReturned |-> t.evalReturned]

\* the end of a request, of a conversation followed or of a turn studied
Finish(t, studied) == IF studied THEN Observe(t) ELSE Commit(t)

\* processMessage(context, message) with what the matcher, the bridge and the
\* database do chosen where each is called, then incrementUsage for a result;
\* lists are the match lists matchCategory can return
ProcessTurn(ctx, row, lists, studied) ==
    \E firstSave \in WriteAnswers :
    \E j \in (IF ctx.jurisdiction = Unset THEN DetectionAnswers ELSE {Unset}) :
        LET tA == processMessage(StartOfTurn(ctx, row, firstSave), j)
        IN IF tA.done THEN Finish(tA, studied)
           ELSE \E m \in (IF tA.ctx.category = Unset THEN MatchAnswers(lists)
                          ELSE {NotCalled}) :
                LET tB == processWithJurisdiction(tA, m)
                IN IF tB.done THEN Finish(tB, studied)
                   ELSE \E completion \in
                               (IF Len(missingIn(tB.ctx.requiredInputs,
                                                 tB.ctx.collectedInputs)) > 0
                                THEN ExtractionAnswers ELSE {NoJsonCompletion}) :
                        \E q \in (IF Len(missingIn(tB.ctx.requiredInputs,
                                                   tB.ctx.collectedInputs)) > 0
                                  THEN WriteAnswers ELSE {"done"}) :
                        LET tC == collectInputs(tB, completion, q)
                        IN IF tC.done THEN Finish(tC, studied)
                           ELSE \E ev \in EvaluationAnswers :
                                \E dc \in (IF ev # "throw" THEN WriteAnswers
                                           ELSE {"done"}) :
                                    Finish(evaluateAndRespond(tC, ev, dc), studied)

\* checkAnonymousUsage(fingerprint).allowed
usageAllowed == usageCount < FREE_QUERY_LIMIT

\* POST /api/query refused by the usage check: the paywall response
PostPaywall ==
    /\ ~usageAllowed
    /\ lastTurn' = [NoTurn EXCEPT !.type = "paywall"]
    /\ UNCHANGED <<store, messages, decisions, usageCount, turns, acceptedRequired,
                   observed>>

\* POST /api/query with a conversationId no row has: 404
PostNotFound ==
    /\ usageAllowed
    /\ ~store.exists
    /\ lastTurn' = [NoTurn EXCEPT !.type = "not_found"]
    /\ UNCHANGED <<store, messages, decisions, usageCount, turns, acceptedRequired,
                   observed>>

\* POST /api/query without conversationId: createConversation, processMessage
PostNew ==
    /\ usageAllowed
    /\ ~store.exists
    /\ turns < MaxTurns
    /\ ProcessTurn(createdContext, createdRow, MatchLists, FALSE)

\* POST /api/query with the conversationId: loadConversation, processMessage
PostExisting ==
    /\ usageAllowed
    /\ store.exists
    /\ turns < MaxTurns
    /\ ProcessTurn(loadConversation(store, messages), store, MatchLists, FALSE)

ConversationInit ==
    /\ store = NoConversation
    /\ messages = <<>>
    /\ decisions = <<>>
    /\ usageCount = 0
    /\ turns = 0
    /\ acceptedRequired = <<>>
    /\ lastTurn = NoTurn
    /\ observed = "none"
    /\ GatewayParked
    /\ EngineParked
    /\ OutcomeParked
    /\ PipelineParked
    /\ AuxParked

ConversationNext ==
    \/ PostNew /\ UNCHANGED <<gwVars, engVars, outVars, plVars, auxVars>>
    \/ PostExisting /\ UNCHANGED <<gwVars, engVars, outVars, plVars, auxVars>>
    \/ PostNotFound /\ UNCHANGED <<gwVars, engVars, outVars, plVars, auxVars>>
    \/ PostPaywall /\ UNCHANGED <<gwVars, engVars, outVars, plVars, auxVars>>

Spec == ConversationInit /\ [][ConversationNext]_vars

(***************************************************************************)
(*        ONE CALL OF processMessage ON EVERY STORED CONVERSATION          *)
(***************************************************************************)
\* POST /api/query once, on no conversation or on a conversation as earlier
\* requests can have left it, with everything the call did recorded.

\* bound: the matches matchCategory returns in the turn studied
MaxRanked == 4

TheJurisdiction == "Cincinnati, OH"

\* the rows earlier requests can have left: the jurisdiction asked for, the
\* jurisdiction known and the category not, a category accepted with any inputs
\* collected (extractInputs' keys are merged as they come), completed or not
StoredRows ==
    {createdRow, [createdRow EXCEPT !.jurisdiction = TheJurisdiction]}
        \cup {[exists |-> TRUE, jurisdiction |-> TheJurisdiction,
               category |-> c.category, subcategory |-> c.subcategory,
               collectedInputs |-> ex, status |-> st] :
                 c \in CategoryCatalogue, ex \in Extractions,
                 st \in {"active", "completed"}}

UserSaid == [role |-> "user", content |-> Msg("user", "")]
AssistantSaid(m) == [role |-> "assistant", content |-> m]

\* requiredInputs of the category of a row
requiredOf(row) ==
    IF row.category = Unset THEN <<>>
    ELSE (CHOOSE c \in CategoryCatalogue : c.category = row.category).requiredInputs

\* the turn that accepted the row's category: it asked for the first field
\* still missing, or evaluated
acceptingTurn(row, evaluated) ==
    IF Len(missingIn(requiredOf(row), row.collectedInputs)) > 0
    THEN <<UserSaid,
           AssistantSaid(Msg("ask_field",
                             missingIn(requiredOf(row), row.collectedInputs)[1]))>>
    ELSE <<UserSaid, AssistantSaid(evaluated)>>

\* a transcript earlier requests leave with the row: the jurisdiction was asked
\* for, then given; no rules were found, or a category was accepted; a later
\* request evaluated
priorTranscript(row) ==
    <<UserSaid, AssistantSaid(Msg("ask_jurisdiction", ""))>>
        \o (IF row.jurisdiction = Unset THEN <<>>
            ELSE IF row.category = Unset
            THEN <<UserSaid, AssistantSaid(Msg("no_rules", ""))>>
            ELSE IF row.status = "active"
            THEN acceptingTurn(row, Msg("evaluation_error", ""))
            ELSE IF Len(missingIn(requiredOf(row), row.collectedInputs)) > 0
            THEN acceptingTurn(row, Msg("none", ""))
                     \o <<UserSaid, AssistantSaid(Msg("result", "ALLOWED"))>>
            ELSE acceptingTurn(row, Msg("result", "ALLOWED")))

\* the decision row of a completed conversation
priorDecisions(row) ==
    IF row.status = "completed"
    THEN <<[category |-> row.category, inputs |-> row.collectedInputs,
            outcome |-> "ALLOWED"]>>
    ELSE <<>>

\* the transcripts a row can come with: the one above, and for a row with the
\* jurisdiction known and no category the turn that was answered with a
\* clarification, of either kind
priorTranscripts(row) ==
    {priorTranscript(row)}
        \cup (IF row.jurisdiction # Unset /\ row.category = Unset
              THEN {<<UserSaid, AssistantSaid(Msg("which_matches", ""))>>,
                    <<UserSaid,
                      AssistantSaid(Msg("are_you_asking_about",
                                        "pitbull_ownership"))>>}
              ELSE {})

NoObservation == [type |-> "none"]

TurnInit ==
    /\ store \in StoredRows \cup {NoConversation}
    /\ messages \in (IF store.exists THEN priorTranscripts(store) ELSE {<<>>})
    /\ decisions = (IF store.exists THEN priorDecisions(store) ELSE <<>>)
    /\ usageCount = Len(decisions)
    /\ turns = Len(messages) \div 2
    /\ acceptedRequired = requiredOf(store)
    /\ lastTurn = NoTurn
    /\ observed = NoObservation
    /\ GatewayParked
    /\ EngineParked
    /\ OutcomeParked
    /\ PipelineParked
    /\ AuxParked

\* POST /api/query without conversationId, observed
TurnNew ==
    /\ observed = NoObservation
    /\ usageAllowed
    /\ ~store.exists
    /\ ProcessTurn(createdContext, createdRow, MatchListsUpTo(MaxRanked), TRUE)

\* POST /api/query with the conversationId, observed
TurnExisting ==
    /\ observed = NoObservation
    /\ usageAllowed
    /\ store.exists
    /\ ProcessTurn(loadConversation(store, messages), store,
                   MatchListsUpTo(MaxRanked), TRUE)

TurnNext ==
    \/ TurnNew /\ UNCHANGED <<gwVars, engVars, outVars, plVars, auxVars>>
    \/ TurnExisting /\ UNCHANGED <<gwVars, engVars, outVars, plVars, auxVars>>

TurnSpec == TurnInit /\ [][TurnNext]_vars

(***************************************************************************)
(*      MATCHER: detectJurisdiction, matchCategory, extractInputs          *)
(*      applied to one completion of the model                             *)
(***************************************************************************)

\* the bound on the elements of the array a completion carries
MaxElements == 3

T_UNKNOWN == <<"U", "N", "K", "N", "O", "W", "N">>
T_Cincinnati == <<"C", "i", "n", "c", "i", "n", "n", "a", "t", "i", ",", " ", "O", "H">>
T_Padded == <<" ", "c", "i", "n", "c", "i", "n", "n", "a", "t", "i", ",", " ", "o", "h", "\n">>
T_Dayton == <<"D", "a", "y", "t", "o", "n", ",", " ", "O", "H">>
T_NoComma == <<"C", "i", "n", "c", "i", "n", "n", "a", "t", "i">>
T_Prose == <<"S", "o", "r", "r", "y", ",", " ", "n", "o">>

\* the names of the jurisdiction table
JurisdictionNames == <<T_Cincinnati>>

\* the completions detectJurisdiction can get
DetectCompletions ==
    {<<>>, T_UNKNOWN, T_Cincinnati, T_Padded, T_Dayton, T_NoComma, T_Prose}

IsSpace(c) == c \in {" ", "\n"}

\* String.prototype.trim
RECURSIVE trim(_)
trim(cs) ==
    IF Len(cs) = 0 THEN cs
    ELSE IF IsSpace(cs[1]) THEN trim(Tail(cs))
    ELSE IF IsSpace(cs[Len(cs)]) THEN trim(SubSeq(cs, 1, Len(cs) - 1))
    ELSE cs

JsNull == [t |-> "null", v |-> <<>>]
resolved(x) == [threw |-> FALSE, value |-> x]
TypeError == [threw |-> TRUE, value |-> [t |-> "TypeError", v |-> <<>>]]

\* db.jurisdiction.findFirst({where: {name: {equals, mode: 'insensitive'}}})
findJurisdiction(name) ==
    {i \in 1..Len(JurisdictionNames) :
        toLowerCase(JurisdictionNames[i]) = toLowerCase(name)}

\* detectJurisdiction(userMessage) for the completion callAI returned
detectJurisdiction(content) ==
    IF trim(content) = T_UNKNOWN \/ ~includes(trim(content), <<",">>)
    THEN resolved(JsNull)
    ELSE IF findJurisdiction(trim(content)) = {}
    THEN resolved(JsNull)
    ELSE resolved(Str(JurisdictionNames[
             CHOOSE i \in findJurisdiction(trim(content)) :
                 \A k \in findJurisdiction(trim(content)) : i <= k]))

\* the active rulesets db.ruleset.findMany returns for the jurisdiction, with
\* their rules: one ruleset has no rule
ActiveRulesets ==
    <<[category |-> "animals",
       rules |-> <<[key |-> "pitbull_ban", subcategory |-> "pitbull_ownership",
                    requiredInputs |-> <<"breed", "hasPermit">>,
                    canonicalQuestions |-> <<"Can I own a pit bull?">>],
                   [key |-> "dog_license", subcategory |-> "dog_license",
                    requiredInputs |-> <<"breed">>,
                    canonicalQuestions |-> <<>>]>>],
      [category |-> "zoning",
       rules |-> <<[key |-> "fence_max", subcategory |-> "fence_height",
                    requiredInputs |-> <<"fenceHeight">>,
                    canonicalQuestions |-> <<"How tall can my fence be?">>]>>],
      [category |-> "noise", rules |-> <<>>]>>

\* the elements of the array a completion's [...] parses to: match objects, with
\* or without a confidence, null, and a number
MatchTopics ==
    {<<"animals", "pitbull_ownership">>, <<"animals", Unset>>,
     <<"zoning", "fence_height">>, <<"noise", Unset>>}
MatchConfidences == {Num(40), Num(50), Num(90), Undefined}
MatchObjects ==
    {[t |-> "object", category |-> tp[1], subcategory |-> tp[2],
      confidence |-> k] : tp \in MatchTopics, k \in MatchConfidences}
NullElement ==
    [t |-> "null", category |-> Unset, subcategory |-> Unset,
     confidence |-> Undefined]
NumberElement ==
    [t |-> "number", category |-> Unset, subcategory |-> Unset,
     confidence |-> Undefined]
ArrayElements == MatchObjects \cup {NullElement, NumberElement}

\* the completions matchCategory can get: text with no [...] in it, text whose
\* [...] JSON.parse rejects, or text whose [...] parses to an array
MatchCompletionsUpTo(k) ==
    {[json |-> "none", elements |-> <<>>],
     [json |-> "invalid", elements |-> <<>>]}
        \cup UNION {{[json |-> "array", elements |-> es] :
                         es \in [1..n -> ArrayElements]} : n \in 0..k}

\* rulesets.find(rs => rs.category === match.category)
\*     ?.rules.filter(r => !match.subcategory || r.subcategory === match.subcategory)
\* as the rules found; none when no ruleset has the category
matchingRules(rulesets, match) ==
    LET found == {i \in 1..Len(rulesets) :
                      rulesets[i].category = match.category}
    IN  IF found = {} THEN <<>>
        ELSE SelectSeq(rulesets[CHOOSE i \in found :
                                    \A k \in found : i <= k].rules,
                       LAMBDA r : \/ match.subcategory = Unset
                                  \/ r.subcategory = match.subcategory)

\* Array.from(new Set(...)) of the rules' requiredInputs, in insertion order
RECURSIVE distinctInOrder(_)
distinctInOrder(xs) ==
    IF Len(xs) = 0 THEN <<>>
    ELSE LET front == distinctInOrder(SubSeq(xs, 1, Len(xs) - 1))
         IN  IF \E i \in 1..Len(front) : front[i] = xs[Len(xs)]
             THEN front
             ELSE Append(front, xs[Len(xs)])

RECURSIVE requiredInputsOf(_)
requiredInputsOf(rules) ==
    IF Len(rules) = 0 THEN <<>>
    ELSE rules[1].requiredInputs \o requiredInputsOf(Tail(rules))

\* the match pushed on enrichedMatches
enriched(match, rules) ==
    [category |-> match.category,
     subcategory |-> match.subcategory,
     confidence |-> match.confidence,
     requiredInputs |-> distinctInOrder(requiredInputsOf(rules)),
     canonicalQuestion |->
         IF Len(rules[1].canonicalQuestions) > 0
         THEN rules[1].canonicalQuestions[1]
         ELSE IF match.subcategory # Unset THEN match.subcategory
         ELSE match.category,
     ruleKeys |-> [i \in 1..Len(rules) |-> rules[i].key]]

\* match.confidence < 0.5
belowFloor(match) == NumLess(ToNumber(match.confidence), Num(50))

\* the for loop over the parsed matches: reading a property of null throws
RECURSIVE enrichFrom(_, _, _)
enrichFrom(rulesets, matches, acc) ==
    IF Len(matches) = 0 THEN resolved(acc)
    ELSE IF matches[1].t = "null" THEN TypeError
    ELSE IF belowFloor(matches[1])
    THEN enrichFrom(rulesets, Tail(matches), acc)
    ELSE IF Len(matchingRules(rulesets, matches[1])) = 0
    THEN enrichFrom(rulesets, Tail(matches), acc)
    ELSE enrichFrom(rulesets, Tail(matches),
                    Append(acc, enriched(matches[1],
                                         matchingRules(rulesets, matches[1]))))

\* the position of the first match of the highest confidence
firstHighest(ms) ==
    CHOOSE i \in 1..Len(ms) :
        /\ \A k \in 1..Len(ms) : ms[k].confidence.v <= ms[i].confidence.v
        /\ \A k \in 1..(i - 1) : ms[k].confidence.v < ms[i].confidence.v

without(ms, i) == SubSeq(ms, 1, i - 1) \o SubSeq(ms, i + 1, Len(ms))

\* a stable sort by descending confidence, of numeric confidences
RECURSIVE stableSort(_)
stableSort(ms) ==
    IF Len(ms) = 0 THEN <<>>
    ELSE <<ms[firstHighest(ms)]>> \o stableSort(without(ms, firstHighest(ms)))

permutationsOf(ms) ==
    {[i \in 1..Len(ms) |-> ms[p[i]]] :
        p \in {q \in [1..Len(ms) -> 1..Len(ms)] :
                   \A i, k \in 1..Len(ms) : q[i] = q[k] => i = k}}

\* enrichedMatches.sort((a, b) => b.confidence - a.confidence): the stable sort,
\* and with a confidence that is no number, whose comparisons give NaN, any
\* order the implementation's sort leaves
sortOutcomes(ms) ==
    IF \A i \in 1..Len(ms) : ms[i].confidence.t = "number"
    THEN {stableSort(ms)}
    ELSE permutationsOf(ms)

\* what matchCategory(userMessage, jurisdiction) can answer for the rulesets
\* found and the completion callAI returned
matchCategory(rulesets, completion) ==
    IF Len(rulesets) = 0 THEN {resolved(Arr(<<>>))}
    ELSE IF completion.json # "array" THEN {resolved(Arr(<<>>))}
    ELSE IF enrichFrom(rulesets, completion.elements, <<>>).threw
    THEN {TypeError}
    ELSE {resolved(Arr(ms)) :
             ms \in sortOutcomes(
                 enrichFrom(rulesets, completion.elements, <<>>).value)}

NotAnswered == [threw |-> FALSE, value |-> [t |-> "none", v |-> <<>>]]

MatcherInit ==
    /\ \/ \E c \in DetectCompletions :
              matcherCall = [fn |-> "detectJurisdiction", content |-> c]
       \/ \E rs \in {<<>>, ActiveRulesets} :
          \E c \in MatchCompletionsUpTo(MaxElements) :
              matcherCall = [fn |-> "matchCategory", rulesets |-> rs,
                             completion |-> c]
       \/ \E c \in Completions :
              matcherCall = [fn |-> "extractInputs", completion |-> c]
    /\ matcherResult = NotAnswered
    /\ GatewayParked
    /\ EngineParked
    /\ OutcomeParked
    /\ ConversationParked
    /\ PipelineParked
    /\ RequestsParked

DetectJurisdiction ==
    /\ matcherResult = NotAnswered
    /\ matcherCall.fn = "detectJurisdiction"
    /\ matcherResult' = detectJurisdiction(matcherCall.content)
    /\ UNCHANGED matcherCall

MatchCategory ==
    /\ matcherResult = NotAnswered
    /\ matcherCall.fn = "matchCategory"
    /\ matcherResult' \in matchCategory(matcherCall.rulesets,
                                        matcherCall.completion)
    /\ UNCHANGED matcherCall

ExtractInputs ==
    /\ matcherResult = NotAnswered
    /\ matcherCall.fn = "extractInputs"
    /\ matcherResult' =
           resolved([t |-> "object",
                     v |-> extractInputs(matcherCall.completion, <<>>)])
    /\ UNCHANGED matcherCall

MatcherNext ==
    \/ DetectJurisdiction /\ UNCHANGED <<gwVars, engVars, outVars, convVars, plVars, rqVars>>
    \/ MatchCategory /\ UNCHANGED <<gwVars, engVars, outVars, convVars, plVars, rqVars>>
    \/ ExtractInputs /\ UNCHANGED <<gwVars, engVars, outVars, convVars, plVars, rqVars>>

MatcherSpec == MatcherInit /\ [][MatcherNext]_vars

(***************************************************************************)
(*      QUERY ENDPOINT: requests in flight for one conversation of one     *)
(*      anonymous caller. A step is what a request does between two        *)
(*      awaited database calls; nothing orders the steps of two requests.  *)
(***************************************************************************)

\* the bound on the requests in flight
MaxRequests == 2

Requests == 1..MaxRequests

\* the rows the requests can find: the jurisdiction known and the category not,
\* or a category accepted with some inputs collected
InFlightRows ==
    {[exists |-> TRUE, jurisdiction |-> TheJurisdiction, category |-> Unset,
      subcategory |-> Unset, collectedInputs |-> <<>>, status |-> "active"]}
        \cup {[exists |-> TRUE, jurisdiction |-> TheJurisdiction,
               category |-> "animals", subcategory |-> "pitbull_ownership",
               collectedInputs |-> ex, status |-> "active"] :
                  ex \in {<<>>, [f \in {"breed"} |-> "x"]}}

\* the match matchCategory returns when a request's match is auto-accepted
AcceptedMatch == CHOOSE c \in CategoryCatalogue : c.category = "animals"

NotStarted ==
    [pc |-> "start", ctx |-> createdContext, merged |-> {}, response |-> "none"]

\* the data of db.conversation.update in updateConversation(context)
writtenRow(ctx) ==
    [exists |-> TRUE, jurisdiction |-> ctx.jurisdiction,
     category |-> ctx.category, subcategory |-> ctx.subcategory,
     collectedInputs |-> ctx.collectedInputs, status |-> ctx.status]

InFlightInit ==
    /\ store \in InFlightRows
    /\ messages = priorTranscript(store)
    /\ decisions = <<>>
    /\ usageCount \in 0..FREE_QUERY_LIMIT
    /\ served = usageCount
    /\ inflight = [r \in Requests |-> NotStarted]
    /\ turns = 0
    /\ acceptedRequired = <<>>
    /\ lastTurn = "none"
    /\ observed = "none"
    /\ GatewayParked
    /\ EngineParked
    /\ OutcomeParked
    /\ PipelineParked
    /\ MatcherParked

\* checkUsageLimit(userId, fingerprint) of request r: the paywall response when
\* it does not allow the request
CheckUsage(r) ==
    /\ inflight[r].pc = "start"
    /\ inflight' = [inflight EXCEPT ![r] =
           IF usageAllowed THEN [@ EXCEPT !.pc = "allowed"]
           ELSE [@ EXCEPT !.pc = "done", !.response = "paywall"]]
    /\ UNCHANGED <<store, messages, decisions, usageCount, served>>

\* loadConversation(conversationId), then the start of processMessage: the user
\* message is saved
LoadConversation(r) ==
    /\ inflight[r].pc = "allowed"
    /\ inflight' = [inflight EXCEPT ![r] =
           [@ EXCEPT !.ctx = loadConversation(store, Append(messages, UserSaid)),
                     !.pc = IF store.category = Unset THEN "matching"
                            ELSE "collecting"]]
    /\ messages' = Append(messages, UserSaid)
    /\ UNCHANGED <<store, decisions, usageCount, served>>

\* processWithJurisdiction without a category: the single confident match is
\* accepted and the row updated, or a clarification is answered
AcceptCategory(r) ==
    /\ inflight[r].pc = "matching"
    /\ \/ /\ inflight' = [inflight EXCEPT ![r] =
                 [@ EXCEPT !.ctx.category = AcceptedMatch.category,
                           !.ctx.subcategory = AcceptedMatch.subcategory,
                           !.ctx.requiredInputs = AcceptedMatch.requiredInputs,
                           !.pc = "collecting"]]
          /\ store' = writtenRow(inflight'[r].ctx)
          /\ UNCHANGED messages
       \/ /\ inflight' = [inflight EXCEPT ![r] =
                 [@ EXCEPT !.pc = "done", !.response = "clarification"]]
          /\ messages' = Append(messages,
                                AssistantSaid(Msg("clarify", "")))
          /\ UNCHANGED store
    /\ UNCHANGED <<decisions, usageCount, served>>

\* collectInputs: the extraction is merged into the context and the row updated
\* from the context; a question is answered when a field is still missing
MergeInputs(r) ==
    /\ inflight[r].pc = "collecting"
    /\ IF Len(missingIn(inflight[r].ctx.requiredInputs,
                        inflight[r].ctx.collectedInputs)) = 0
       THEN /\ inflight' = [inflight EXCEPT ![r] = [@ EXCEPT !.pc = "evaluating"]]
            /\ UNCHANGED <<store, messages>>
       ELSE \E D \in SUBSET {f \in InputFields :
                       \E i \in 1..Len(inflight[r].ctx.requiredInputs) :
                           /\ inflight[r].ctx.requiredInputs[i] = f
                           /\ f \notin DOMAIN inflight[r].ctx.collectedInputs} :
              /\ inflight' = [inflight EXCEPT ![r] =
                     [@ EXCEPT !.ctx.collectedInputs =
                                   Spread(@, [f \in D |-> "x"]),
                               !.merged = D,
                               !.pc = IF Len(missingIn(
                                               inflight[r].ctx.requiredInputs,
                                               Spread(inflight[r].ctx.collectedInputs,
                                                      [f \in D |-> "x"]))) > 0
                                      THEN "done" ELSE "evaluating",
                               !.response = IF Len(missingIn(
                                               inflight[r].ctx.requiredInputs,
                                               Spread(inflight[r].ctx.collectedInputs,
                                                      [f \in D |-> "x"]))) > 0
                                            THEN "question" ELSE "none"]]
              /\ store' = writtenRow(inflight'[r].ctx)
              /\ messages' = IF inflight'[r].pc = "done"
                             THEN Append(messages,
                                         AssistantSaid(Msg("ask_field", "")))
                             ELSE messages
    /\ UNCHANGED <<decisions, usageCount, served>>

\* evaluateAndRespond: evaluateRules returns, the row is completed and a decision
\* stored, or it throws and the error response is answered
EvaluateAndRespond(r) ==
    /\ inflight[r].pc = "evaluating"
    /\ \/ /\ inflight' = [inflight EXCEPT ![r] =
                 [@ EXCEPT !.ctx.status = "completed", !.pc = "counting",
                           !.response = "result"]]
          /\ store' = writtenRow(inflight'[r].ctx)
          /\ decisions' = Append(decisions,
                 [category |-> inflight[r].ctx.category,
                  inputs |-> inflight[r].ctx.collectedInputs,
                  outcome |-> "ALLOWED"])
          /\ messages' = Append(messages,
                                AssistantSaid(Msg("result", "ALLOWED")))
       \/ /\ inflight' = [inflight EXCEPT ![r] =
                 [@ EXCEPT !.pc = "done", !.response = "error"]]
          /\ messages' = Append(messages,
                                AssistantSaid(Msg("evaluation_error", "")))
          /\ UNCHANGED <<store, decisions>>
    /\ UNCHANGED <<usageCount, served>>

\* incrementUsage for the result, then the response is returned
IncrementUsage(r) ==
    /\ inflight[r].pc = "counting"
    /\ usageCount' = incrementUsage(usageCount, inflight[r].response)
    /\ served' = served + 1
    /\ inflight' = [inflight EXCEPT ![r] = [@ EXCEPT !.pc = "done"]]
    /\ UNCHANGED <<store, messages, decisions>>

InFlightNext ==
    \/ (\E r \in Requests : CheckUsage(r))
           /\ UNCHANGED <<gwVars, engVars, outVars, plVars, mtVars, turns,
                          acceptedRequired, lastTurn, observed>>
    \/ (\E r \in Requests : LoadConversation(r))
           /\ UNCHANGED <<gwVars, engVars, outVars, plVars, mtVars, turns,
                          acceptedRequired, lastTurn, observed>>
    \/ (\E r \in Requests : AcceptCategory(r))
           /\ UNCHANGED <<gwVars, engVars, outVars, plVars, mtVars, turns,
                          acceptedRequired, lastTurn, observed>>
    \/ (\E r \in Requests : MergeInputs(r))
           /\ UNCHANGED <<gwVars, engVars, outVars, plVars, mtVars, turns,
                          acceptedRequired, lastTurn, observed>>
    \/ (\E r \in Requests : EvaluateAndRespond(r))
           /\ UNCHANGED <<gwVars, engVars, outVars, plVars, mtVars, turns,
                          acceptedRequired, lastTurn, observed>>
    \/ (\E r \in Requests : IncrementUsage(r))
           /\ UNCHANGED <<gwVars, engVars, outVars, plVars, mtVars, turns,
                          acceptedRequired, lastTurn, observed>>

InFlightSpec == InFlightInit /\ [][InFlightNext]_vars

(***************************************************************************)
(*                 REQUESTS IN FLIGHT: CLAIMS C36, C40                     *)
(***************************************************************************)

\* a request between its load of the conversation and its last write of it
inTurn(r) == inflight[r].pc \in {"matching", "collecting", "evaluating"}

allAnswered == \A r \in Requests : inflight[r].pc = "done"

\* C36: no two requests for the conversation are between load and last write at
\* once; and when all are answered, the row holds every field a request merged
\* and is completed if a request completed it
C36_TurnsAreSequential ==
    /\ \A r1, r2 \in Requests : r1 # r2 => ~(inTurn(r1) /\ inTurn(r2))
    /\ allAnswered =>
           /\ \A r \in Requests :
                  inflight[r].merged \subseteq DOMAIN store.collectedInputs
           /\ (\E r \in Requests : inflight[r].response = "result") =>
                  store.status = "completed"

\* C40: the caller has received at most FREE_QUERY_LIMIT responses of type
\* result since its counter was reset
C40_ResultsWithinLimit == served <= FREE_QUERY_LIMIT

(***************************************************************************)
(*                     MATCHER: CLAIMS C32, C33                            *)
(***************************************************************************)

matchCategoryAnswered ==
    /\ matcherCall.fn = "matchCategory"
    /\ matcherResult # NotAnswered
    /\ ~matcherResult.threw

topicsOf(ms) == [i \in 1..Len(ms) |-> <<ms[i].category, ms[i].subcategory>>]

\* a is b with some elements left out
RECURSIVE isSubsequence(_, _)
isSubsequence(a, b) ==
    IF Len(a) = 0 THEN TRUE
    ELSE IF Len(b) = 0 THEN FALSE
    ELSE IF a[1] = b[1] THEN isSubsequence(Tail(a), Tail(b))
    ELSE isSubsequence(a, Tail(b))

hasRulesIn(rulesets, category) ==
    \E i \in 1..Len(rulesets) :
        rulesets[i].category = category /\ Len(rulesets[i].rules) > 0

\* C32: every match matchCategory returns has a confidence of at least 0.5 and a
\* category with rules in an active ruleset of the jurisdiction; the matches are
\* in descending order of confidence, and those of one confidence are in the
\* order the completion listed them
C32_RankedAboveFloor ==
    matchCategoryAnswered =>
        /\ \A i \in 1..Len(matcherResult.value.v) :
               /\ matcherResult.value.v[i].confidence.t = "number"
               /\ matcherResult.value.v[i].confidence.v >= 50
               /\ hasRulesIn(matcherCall.rulesets,
                             matcherResult.value.v[i].category)
        /\ \A i, k \in 1..Len(matcherResult.value.v) :
               i < k => matcherResult.value.v[k].confidence.v
                            <= matcherResult.value.v[i].confidence.v
        /\ \A c \in MatchConfidences :
               isSubsequence(
                   topicsOf(SelectSeq(matcherResult.value.v,
                                      LAMBDA m : m.confidence = c)),
                   topicsOf(SelectSeq(matcherCall.completion.elements,
                                      LAMBDA m : m.confidence = c)))

\* a completion that is no request's expected answer: for detectJurisdiction a
\* text that is no "City, State", for matchCategory a text without a JSON array
\* or an array with no match object in it, for extractInputs a text without a
\* JSON object
malformedCompletion ==
    CASE matcherCall.fn = "detectJurisdiction" ->
             ~includes(matcherCall.content, <<",">>)
      [] matcherCall.fn = "matchCategory" ->
             \/ matcherCall.completion.json # "array"
             \/ /\ Len(matcherCall.completion.elements) > 0
                /\ \A i \in 1..Len(matcherCall.completion.elements) :
                       matcherCall.completion.elements[i].t # "object"
      [] matcherCall.fn = "extractInputs" ->
             matcherCall.completion.json # "object"

emptyResult ==
    CASE matcherCall.fn = "detectJurisdiction" -> resolved(JsNull)
      [] matcherCall.fn = "matchCategory" -> resolved(Arr(<<>>))
      [] matcherCall.fn = "extractInputs" ->
             resolved([t |-> "object", v |-> <<>>])

\* C33: detectJurisdiction, matchCategory and extractInputs never throw on a
\* completion, and for a malformed completion each returns its empty result:
\* null, [] or {}
C33_MalformedCompletionDegrades ==
    matcherResult # NotAnswered =>
        /\ ~matcherResult.threw
        /\ malformedCompletion => matcherResult = emptyResult

(***************************************************************************)
(*                      GATEWAY: CLAIMS C6 .. C10                          *)
(***************************************************************************)

\* the first provider of the logical call raised an error
PrimaryFailed ==
    \/ primary \notin Providers
    \/ (Len(backendLog) >= 1 /\ backendLog[1].outcome # "ok")

\* providers with credentials other than the primary
OtherConfigured == clients \ {primary}

LoggedProviders == {backendLog[i].provider : i \in 1..Len(backendLog)}

\* C6: a callAI made with an explicit provider never falls back: only that
\* provider's backend is invoked, at most once, and when it fails the caller gets
\* that provider's own error, whatever fallbackEnabled is.
C6_ExplicitNeverFallsBack ==
    optProvider # NoProvider =>
        /\ Len(backendLog) <= 1
        /\ LoggedProviders \subseteq {optProvider}
        /\ Len(frames) <= 1
        /\ (gwPc = "done" /\ backendLog[1].outcome # "ok") =>
               /\ gwResult.status = "error"
               /\ gwResult.error = [from |-> optProvider, kind |-> backendLog[1].outcome]

\* C6 witness: an explicit call failed with fallback enabled and another provider
\* ready to serve.
C6_Witness ==
    /\ gwPc = "done"
    /\ optProvider # NoProvider
    /\ fallbackEnabled
    /\ clients \ {optProvider} # {}
    /\ gwResult.status = "error"

\* C7 as stated: without an explicit provider, when the primary (one of the three
\* providers) raises an error and another provider is configured (fallback
\* enabled), the call succeeds and the
\* response names the fallback, not the primary.
C7_FallbackAlwaysSucceeds ==
    (/\ gwPc = "done"
     /\ optProvider = NoProvider
     /\ fallbackEnabled
     /\ primary \in Providers
     /\ PrimaryFailed
     /\ OtherConfigured # {}) =>
        /\ gwResult.status = "ok"
        /\ gwResult.provider # primary

\* C7 amended: in that case exactly one fallback backend is invoked, it is a
\* configured provider other than the primary, and the call's result is that
\* backend's: its response, naming the fallback, when it succeeds; its error when
\* it fails.
C7_FallbackResultIsFallbacks ==
    (/\ gwPc = "done"
     /\ optProvider = NoProvider
     /\ fallbackEnabled
     /\ primary \in Providers
     /\ PrimaryFailed
     /\ OtherConfigured # {}) =>
        LET fb == backendLog[Len(backendLog)]
        IN /\ Len(backendLog) = 2
           /\ fb.provider \in clients
           /\ fb.provider # primary
           /\ fb.outcome = "ok" =>
                  gwResult = [status |-> "ok", provider |-> fb.provider,
                              error |-> NoError]
           /\ fb.outcome # "ok" =>
                  /\ gwResult.status = "error"
                  /\ gwResult.error = [from |-> fb.provider, kind |-> fb.outcome]

\* C7 witness: the primary failed and the fallback answered.
C7_Witness ==
    /\ gwPc = "done"
    /\ optProvider = NoProvider
    /\ fallbackEnabled
    /\ primary \in clients
    /\ Len(backendLog) = 2
    /\ backendLog[1].outcome = "backend"
    /\ gwResult.status = "ok"
    /\ gwResult.provider # primary

\* C8: without an explicit provider, when the primary (a provider with
\* credentials) fails and no other provider is configured, the call fails with the
\* primary's error.
C8_PrimaryErrorSurfaced ==
    (/\ gwPc = "done"
     /\ optProvider = NoProvider
     /\ primary \in clients
     /\ PrimaryFailed
     /\ OtherConfigured = {}) =>
        /\ gwResult.status = "error"
        /\ gwResult.error.from = primary

C10_AtMostTwoBackends ==
    /\ Len(backendLog) <= 2
    /\ Len(frames) <= 2
    /\ Cardinality(LoggedProviders) = Len(backendLog)
    /\ Len(backendLog) = 2 => gwPc = "done"
    /\ gwPc = "calling" => Len(frames) >= 1
    /\ gwPc = "done" => frames = <<>>

\* C10 witness: two backends were invoked and failed, the third provider had
\* credentials, and the call is over.
C10_Witness ==
    /\ gwPc = "done"
    /\ clients = Providers
    /\ Len(backendLog) = 2
    /\ gwResult.status = "error"

\* C11: providers without credentials are skipped when the fallback is chosen:
\* for each of the three providers as primary and every set of configured
\* providers, when the first activation failed and some provider other than the
\* primary has credentials, the provider of the fallback activation has
\* credentials.
C11_FallbackIsConfigured ==
    (/\ Len(frames) = 2
     /\ primary \in Providers
     /\ OtherConfigured # {}) =>
        frames[2].provider \in clients

\* C11 witness: the primary gemini failed, anthropic (first in the order) has no
\* credentials, and the fallback activation is for openai.
C11_Witness ==
    /\ Len(frames) = 2
    /\ primary = "gemini"
    /\ clients = {"gemini", "openai"}
    /\ frames[2].provider = "openai"

(***************************************************************************)
(*                    CONVERSATION: CLAIMS C2, C3                          *)
(***************************************************************************)

\* C2: over any sequence of turns of one conversation, each handled as the query
\* endpoint does, evaluateRules is invoked only when every field of the
\* required-input list of the accepted category match is present in
\* collectedInputs. (The list a later request works with is the one
\* loadConversation rebuilds, which is empty.)
C2_EvaluatedOnlyWithAllRequired ==
    lastTurn.evalInvoked =>
        \A i \in 1..Len(acceptedRequired) : acceptedRequired[i] \in lastTurn.evalKeys

\* C3: once the conversation's status is completed, no later request changes its
\* row, appends to its transcript, or creates another decision record.
C3_CompletedNeverMutated ==
    [][(store.status = "completed") =>
          (store' = store /\ messages' = messages /\ decisions' = decisions)]_vars

(***************************************************************************)
(*                  CONVERSATION: CLAIMS C12, C13                          *)
(***************************************************************************)

\* C12: merging an extraction result in collectInputs adds or changes only fields
\* of the missing-input list passed to that extraction: every other field of the
\* merged collectedInputs was there before the merge, with the same value.
C12_MergeTouchesOnlyMissing ==
    lastTurn.extractCalled =>
        \A f \in DOMAIN lastTurn.collectedAfter :
            f \notin lastTurn.extractMissing =>
                /\ f \in DOMAIN lastTurn.collectedBefore
                /\ lastTurn.collectedBefore[f] = lastTurn.collectedAfter[f]

\* C13: every key of the mapping extractInputs returned is one of the field names
\* of the missingInputs list it was called with.
C13_ExtractedKeysAreMissing ==
    lastTurn.extractCalled =>
        DOMAIN lastTurn.extracted \subseteq lastTurn.extractMissing

(***************************************************************************)
(*                 CONVERSATION: CLAIMS C22 TO C30                         *)
(***************************************************************************)

\* processMessage ran and returned a response to POST
Returned == observed.type \in {"question", "clarification", "result", "error"}

\* the fields updateConversation writes, as the returned context holds them
rowOf(view) ==
    [exists |-> TRUE, jurisdiction |-> view.jurisdiction,
     category |-> view.category, subcategory |-> view.subcategory,
     collectedInputs |-> view.collectedInputs, status |-> view.status]

\* C22: the only status change a turn makes, in the context and in the stored
\* row, is active to completed, and only in a turn where evaluateRules returned;
\* a turn that ends in the jurisdiction question, the no-rules response, a
\* clarification or a missing-field question leaves the status active; the
\* status is never set to abandoned.
C22_StatusOnlyCompletesAfterEvaluation ==
    observed.type # "none" =>
        /\ observed.ctxAfter.status \in {"active", "completed"}
        /\ store.status \in {"active", "completed"}
        /\ (\/ observed.ctxAfter.status # observed.ctxBefore.status
            \/ store.status # observed.rowBefore.status) =>
               /\ observed.ctxBefore.status = "active"
               /\ observed.rowBefore.status = "active"
               /\ observed.ctxAfter.status = "completed"
               /\ observed.evalReturned
        /\ (/\ Returned
            /\ observed.response.message.kind \in
                   {"ask_jurisdiction", "no_rules", "which_matches",
                    "are_you_asking_about", "ask_field"}) =>
               /\ observed.ctxAfter.status = "active"
               /\ store.status = "active"

\* C22 witness: a turn on an active conversation evaluated the rules, answered
\* with the result and left the conversation completed.
C22_Witness ==
    /\ observed.type = "result"
    /\ observed.rowBefore.status = "active"
    /\ observed.evalReturned
    /\ observed.ctxAfter.status = "completed"
    /\ store.status = "completed"

\* C23: whenever a turn returns a response of type error, the status in the
\* returned context and in the stored row is active.
C23_ErrorLeavesActive ==
    observed.type = "error" =>
        /\ observed.ctxAfter.status = "active"
        /\ store.status = "active"

\* C24: with the category unset, the turn accepts a category exactly when
\* matchCategory returns one match of confidence above 0.85; category,
\* subcategory and requiredInputs are then those of the match and collectInputs
\* runs in the same turn (extractInputs is called when an input is missing).
C24_AutoAcceptIffSingleConfident ==
    (observed.type # "none" /\ observed.matchCalled
        /\ observed.faulted # "matchCategory") =>
        /\ observed.ctxBefore.category = Unset
        /\ (observed.ctxAfter.category # Unset) <=>
               (/\ Len(observed.matches) = 1
                /\ observed.matches[1].confidence > AutoAcceptConfidence)
        /\ (observed.ctxAfter.category # Unset) =>
               /\ observed.ctxAfter.category = observed.matches[1].category
               /\ observed.ctxAfter.subcategory = observed.matches[1].subcategory
               /\ observed.ctxAfter.requiredInputs =
                      observed.matches[1].requiredInputs
               /\ store.category = observed.matches[1].category
               /\ observed.collectEntered
               /\ Len(missingIn(observed.matches[1].requiredInputs,
                                observed.ctxBefore.collectedInputs)) > 0 =>
                      observed.extractCalled
        /\ (observed.ctxAfter.category = Unset) => ~observed.collectEntered

\* C24 witness: one match of confidence 0.9 was accepted and the same turn went
\* on to ask for a missing input.
C24_Witness ==
    /\ observed.type = "question"
    /\ observed.matchCalled
    /\ Len(observed.matches) = 1
    /\ observed.matches[1].confidence = 90
    /\ observed.ctxAfter.category = "animals"
    /\ observed.extractCalled
    /\ observed.response.message.kind = "ask_field"

\* the matches call for a clarification: two or more, or one of confidence at
\* most 0.85
NeedsClarification ==
    /\ Returned
    /\ observed.matchCalled
    /\ \/ Len(observed.matches) >= 2
       \/ /\ Len(observed.matches) = 1
          /\ observed.matches[1].confidence <= AutoAcceptConfidence

\* the canonical questions of the first min(3, n) matches, in rank order
FirstThreeQuestions(ms) ==
    [i \in 1..(IF Len(ms) < 3 THEN Len(ms) ELSE 3) |-> ms[i].canonicalQuestion]

\* the response is a clarification, with the options of the multi-match case
ClarificationGiven ==
    /\ observed.type = "clarification"
    /\ Len(observed.matches) >= 2 =>
           observed.response.options = FirstThreeQuestions(observed.matches)

\* C25 as stated: on two or more matches, or one match of confidence at most
\* 0.85, the response is a clarification (options: the canonical questions of
\* the first min(3, n) matches in rank order) and jurisdiction, category,
\* subcategory, required inputs, collected inputs and status are as they were
\* before the turn.
C25_ClarificationLeavesStateUnchanged ==
    NeedsClarification =>
        /\ ClarificationGiven
        /\ observed.ctxAfter = observed.ctxBefore
        /\ store = observed.rowBefore

\* the context as it was before the turn, with the jurisdiction this turn
\* detected if it had none
withDetected(view) ==
    [view EXCEPT !.jurisdiction =
        IF view.jurisdiction = Unset THEN observed.detected ELSE @]

\* C25 amended: the response is a clarification with those options; category,
\* subcategory, required inputs, collected inputs and status are as before the
\* turn; the jurisdiction is as before the turn unless it was unset, and then it
\* is the one detected in this turn, stored.
C25_ClarificationKeepsAllButDetectedJurisdiction ==
    NeedsClarification =>
        /\ ClarificationGiven
        /\ observed.ctxAfter = withDetected(observed.ctxBefore)
        /\ store = rowOf(withDetected(observed.ctxBefore))
        /\ (observed.ctxBefore.jurisdiction # Unset) =>
               (observed.ctxAfter = observed.ctxBefore
                   /\ store = observed.rowBefore)

\* C25 witness: four matches came back on a new conversation whose jurisdiction
\* was detected in the same turn; three options were offered.
C25_Witness ==
    /\ observed.type = "clarification"
    /\ Len(observed.matches) = 4
    /\ Len(observed.response.options) = 3
    /\ observed.ctxBefore.jurisdiction = Unset
    /\ observed.ctxAfter.jurisdiction = TheJurisdiction

\* C26: with the jurisdiction unset and none detected, matchCategory is not
\* called in the turn, jurisdiction, category, collected inputs and status stay
\* as they were, and the response is the question asking for the jurisdiction.
C26_NoJurisdictionAsksAndStops ==
    (/\ observed.type # "none"
     /\ observed.ctxBefore.jurisdiction = Unset
     /\ observed.faulted # "detectJurisdiction"
     /\ observed.detected = Unset) =>
        /\ ~observed.matchCalled
        /\ observed.ctxAfter = observed.ctxBefore
        /\ store = observed.rowBefore
        /\ Returned =>
               /\ observed.type = "question"
               /\ observed.response.message = Msg("ask_jurisdiction", "")

\* C26 witness: a stored conversation without jurisdiction was asked for it
\* again.
C26_Witness ==
    /\ observed.type = "question"
    /\ observed.response.message.kind = "ask_jurisdiction"
    /\ observed.detectCalled
    /\ Len(messages) = 4
    /\ store.jurisdiction = Unset

\* the required inputs not in collectedInputs when the turn returned
MissingAfter ==
    missingIn(observed.ctxAfter.requiredInputs, observed.ctxAfter.collectedInputs)

\* C27: when required inputs are missing after the merge, the turn does not
\* evaluate and returns one question, for the first field of the required-input
\* list that is not in collectedInputs.
C27_AsksFirstMissingField ==
    (Returned /\ observed.extractCalled /\ Len(MissingAfter) > 0) =>
        /\ observed.type = "question"
        /\ observed.response.message = Msg("ask_field", MissingAfter[1])
        /\ ~observed.evalInvoked
        /\ observed.rowsAppended
               = <<UserSaid, AssistantSaid(observed.response.message)>>

\* C27 witness: of the two required inputs none was extracted (another field
\* was), and the first one was asked for.
C27_Witness ==
    /\ observed.type = "question"
    /\ observed.ctxAfter.requiredInputs = <<"breed", "hasPermit">>
    /\ DOMAIN observed.ctxAfter.collectedInputs = {"fenceHeight"}
    /\ observed.response.message = Msg("ask_field", "breed")

\* C28: a call of processMessage that returns a response has appended two
\* messages to the transcript, in the context and in the stored rows: the
\* user's, then one assistant message whose content is the response's message.
C28_TwoMessagesPerTurn ==
    Returned =>
        /\ observed.ctxAppended
               = <<UserSaid, AssistantSaid(observed.response.message)>>
        /\ observed.rowsAppended
               = <<UserSaid, AssistantSaid(observed.response.message)>>

\* C29: a turn that fails with an exception leaves nothing of itself stored: no
\* message row and no change of the conversation row.
C29_FailedTurnLeavesNothing ==
    observed.type = "http500" =>
        /\ observed.rowsAppended = <<>>
        /\ store = observed.rowBefore

\* the jurisdiction was unset and none was detected
BranchAskJurisdiction ==
    observed.ctxBefore.jurisdiction = Unset /\ observed.detected = Unset

\* the category was unset: matchCategory decides
BranchNoRules ==
    /\ ~BranchAskJurisdiction
    /\ observed.ctxBefore.category = Unset
    /\ Len(observed.matches) = 0

BranchClarify ==
    /\ ~BranchAskJurisdiction
    /\ observed.ctxBefore.category = Unset
    /\ Len(observed.matches) >= 1
    /\ ~(Len(observed.matches) = 1
             /\ observed.matches[1].confidence > AutoAcceptConfidence)

\* the category is set, before the turn or by it: inputs are collected
BranchAskField ==
    /\ ~BranchAskJurisdiction /\ ~BranchNoRules /\ ~BranchClarify
    /\ Len(MissingAfter) > 0

BranchEvaluate ==
    /\ ~BranchAskJurisdiction /\ ~BranchNoRules /\ ~BranchClarify
    /\ Len(MissingAfter) = 0

\* the response each branch gives
ResponseOfBranch ==
    /\ BranchAskJurisdiction =>
           /\ observed.type = "question"
           /\ observed.response.message.kind = "ask_jurisdiction"
    /\ BranchNoRules =>
           /\ observed.type = "error"
           /\ observed.response.message.kind = "no_rules"
    /\ BranchClarify =>
           /\ observed.type = "clarification"
           /\ observed.response.message.kind \in
                  {"which_matches", "are_you_asking_about"}
    /\ BranchAskField =>
           /\ observed.type = "question"
           /\ observed.response.message.kind = "ask_field"
    /\ BranchEvaluate =>
           /\ observed.evalInvoked
           /\ \/ /\ observed.type = "result"
                 /\ observed.response.message.kind = "result"
              \/ /\ observed.type = "error"
                 /\ observed.response.message.kind = "evaluation_error"

\* C30: whatever the conversation and whatever the matcher returns, a call of
\* processMessage that returns has taken the one branch the state and the
\* matcher's results select, has given that branch's response, of a defined
\* type and stored once as the last message, and has left a stored row that
\* agrees with the returned context.
C30_ExactlyOneBranch ==
    Returned =>
        /\ ResponseOfBranch
        /\ observed.matchCalled <=>
               (~BranchAskJurisdiction /\ observed.ctxBefore.category = Unset)
        /\ observed.evalInvoked <=> BranchEvaluate
        /\ Len(observed.rowsAppended) = 2
        /\ observed.rowsAppended[2] = AssistantSaid(observed.response.message)
        /\ store = rowOf(observed.ctxAfter)
        /\ store.status \in {"active", "completed"}

\* C30 witness: a stored conversation with jurisdiction and no category got one
\* match of confidence 0.85 and was asked to confirm it.
C30_Witness ==
    /\ observed.type = "clarification"
    /\ observed.response.message.kind = "are_you_asking_about"
    /\ observed.rowBefore.jurisdiction = TheJurisdiction
    /\ Len(observed.matches) = 1
    /\ observed.matches[1].confidence = AutoAcceptConfidence
    /\ store = observed.rowBefore

(***************************************************************************)
(*                    QUERY ENDPOINT: CLAIM C34                            *)
(***************************************************************************)

\* C34: a request of a caller over the limit is answered with the paywall and
\* leaves the conversation, the messages, the decisions and the usage counter as
\* they were; a request is processed only when the usage check allowed it; the
\* usage counter grows by exactly one with a response of type result and not at
\* all with any other response
C34_UsageCheckedThenCounted ==
    [][/\ usageCount >= FREE_QUERY_LIMIT =>
              /\ lastTurn'.type = "paywall"
              /\ store' = store
              /\ messages' = messages
              /\ decisions' = decisions
              /\ usageCount' = usageCount
       /\ usageCount < FREE_QUERY_LIMIT => lastTurn'.type # "paywall"
       /\ usageCount' = (IF lastTurn'.type = "result" THEN usageCount + 1
                         ELSE usageCount)]_vars

\* the caller has had its results and is answered with the paywall
C34_Witness ==
    /\ lastTurn.type = "paywall"
    /\ usageCount = FREE_QUERY_LIMIT
    /\ Len(decisions) = FREE_QUERY_LIMIT
    /\ store.exists

(***************************************************************************)
(*                    QUERY ENDPOINT: CLAIM C35                            *)
(***************************************************************************)

\* C35: the response to a turn that failed carries neither the error text of a
\* provider nor the name of the backend that failed: when callAI rethrew, the
\* caller gets a generic message only
C35_FailedTurnIsGeneric ==
    httpResponse.status = 500 =>
        /\ httpResponse.details.text = "none"
        /\ httpResponse.details.names \notin Providers

(***************************************************************************)
(*                        ENGINE: CLAIM C37                                *)
(***************************************************************************)

\* the leaf conditions of a tree, in document order
RECURSIVE leavesOf(_)
RECURSIVE leavesOfChecks(_)
leavesOfChecks(checks) ==
    IF Len(checks) = 0 THEN <<>>
    ELSE (IF IsGroup(checks[1]) THEN leavesOf(checks[1]) ELSE <<checks[1]>>)
             \o leavesOfChecks(Tail(checks))

leavesOf(group) == leavesOfChecks(group.checks)

\* the groups of a tree: the tree and every group nested in it
RECURSIVE groupsOf(_)
groupsOf(group) ==
    {group} \cup UNION {groupsOf(group.checks[i]) :
                            i \in {k \in 1..Len(group.checks) :
                                       IsGroup(group.checks[k])}}

leafPassed(c, ins) == evaluateCondition(c, ins).passed

textsOf(leaves, ins) ==
    [i \in 1..Len(leaves) |->
        ConditionText(leaves[i], evaluateCondition(leaves[i], ins))]

\* the group's verdict and lists are those of its leaves taken flat
decidedFromLeaves(group, ins) ==
    /\ evaluateConditionGroup(group, ins).passed =
           (IF group.type = "all"
            THEN \A i \in 1..Len(leavesOf(group)) :
                     leafPassed(leavesOf(group)[i], ins)
            ELSE \E i \in 1..Len(leavesOf(group)) :
                     leafPassed(leavesOf(group)[i], ins))
    /\ evaluateConditionGroup(group, ins).passedConditions =
           textsOf(SelectSeq(leavesOf(group), LAMBDA c : leafPassed(c, ins)), ins)
    /\ evaluateConditionGroup(group, ins).failedConditions =
           textsOf(SelectSeq(leavesOf(group), LAMBDA c : ~leafPassed(c, ins)), ins)

\* C37: when the evaluation raises nothing, every group of the rule's tree is
\* decided from the leaf conditions anywhere beneath it: an all group passes iff
\* none of them failed, an any group iff one of them passed; the rule's
\* passedConditions and failedConditions hold the passed and the failed leaves
\* in document order, one entry for each leaf of the tree
C37_GroupDecidedFromFlattenedLeaves ==
    (engPc = "evaluated" /\ ~evalResult.threw) =>
        /\ \A g \in groupsOf(rule.conditions) : decidedFromLeaves(g, inputs)
        /\ evalResult.matched =
               evaluateConditionGroup(rule.conditions, inputs).passed
        /\ evalResult.passedConditions =
               textsOf(SelectSeq(leavesOf(rule.conditions),
                                 LAMBDA c : leafPassed(c, inputs)), inputs)
        /\ evalResult.failedConditions =
               textsOf(SelectSeq(leavesOf(rule.conditions),
                                 LAMBDA c : ~leafPassed(c, inputs)), inputs)
        /\ Len(evalResult.passedConditions) + Len(evalResult.failedConditions)
               = Len(leavesOf(rule.conditions))

\* an all root over an any group that has a passed and a failed leaf: the failed
\* leaf decides the root
C37_Witness ==
    /\ engPc = "evaluated"
    /\ ~evalResult.threw
    /\ rule.conditions.type = "all"
    /\ Len(rule.conditions.checks) = 1
    /\ IsGroup(rule.conditions.checks[1])
    /\ rule.conditions.checks[1].type = "any"
    /\ Len(evalResult.passedConditions) = 1
    /\ Len(evalResult.failedConditions) = 1
    /\ ~evalResult.matched

(***************************************************************************)
(*                     CONVERSATION: CLAIM C38                             *)
(***************************************************************************)

\* the turn before the one observed was answered with a clarification
afterClarification ==
    /\ observed.type # "none"
    /\ Len(messages) > Len(observed.rowsAppended)
    /\ messages[Len(messages) - Len(observed.rowsAppended)].role = "assistant"
    /\ messages[Len(messages) - Len(observed.rowsAppended)].content.kind
           \in {"which_matches", "are_you_asking_about"}

\* the turn observed got from matchCategory one match of confidence above 0.85
singleConfidentMatch ==
    /\ observed.matchCalled
    /\ Len(observed.matches) = 1
    /\ observed.matches[1].confidence > AutoAcceptConfidence

\* C38: a turn leaves the conversation with a category it did not have before
\* only when its own category match is a single match of confidence above 0.85,
\* whose category it is; in particular the turn that follows a clarification
\* leaves the category unset, in the context and in the row, unless its own
\* match is such a match; a category once set is not changed
C38_CategorySetOnlyByAutoAccept ==
    observed.type # "none" =>
        /\ (observed.rowBefore.category = Unset
              /\ (store.category # Unset \/ observed.ctxAfter.category # Unset)) =>
               /\ singleConfidentMatch
               /\ observed.ctxAfter.category = observed.matches[1].category
               /\ store.category = observed.matches[1].category
        /\ (afterClarification /\ ~singleConfidentMatch) =>
               /\ observed.rowBefore.category = Unset
               /\ store.category = Unset
               /\ observed.ctxAfter.category = Unset
        /\ observed.rowBefore.category # Unset =>
               /\ store.category = observed.rowBefore.category
               /\ ~observed.matchCalled

\* the turn after a clarification found two matches again, the first of them
\* confident: the category stays unset and the caller is asked once more
C38_Witness ==
    /\ afterClarification
    /\ observed.type = "clarification"
    /\ observed.matchCalled
    /\ Len(observed.matches) = 2
    /\ observed.matches[1].confidence = 90
    /\ store.category = Unset

(***************************************************************************)
(*                        ENGINE: CLAIM C39                                *)
(***************************************************************************)

\* the first matched result of a run and the rule it was built from
firstMatched(run) ==
    CHOOSE k \in 1..Len(run.results) :
        /\ run.results[k].matched
        /\ \A j \in 1..(k - 1) : ~run.results[j].matched

\* C39: in every evaluation of a rule set, the result of a rule whose root group
\* is an all group has no failed condition when it is matched; and a CONDITIONAL
\* rationale whose primary result is that of such a rule reads 0 requirement(s)
\* with an empty list of requirements
C39_MatchedAllHasNoRequirement ==
    \A i \in 1..Len(runs) :
        ~runs[i].threw =>
            /\ \A k \in 1..Len(runs[i].results) :
                   (runs[i].rules[k].conditions.type = "all"
                        /\ runs[i].results[k].matched) =>
                       runs[i].results[k].failedConditions = <<>>
            /\ (/\ runs[i].outcome = "CONDITIONAL"
                /\ runs[i].rules[firstMatched(runs[i])].conditions.type = "all") =>
                   /\ runs[i].rationale[2] = Interpolated(Num(0))
                   /\ SubSeq(runs[i].rationale, 1, 4) =
                          <<Literal("This is allowed with conditions. "),
                            Interpolated(Num(0)),
                            Literal(" requirement(s) must be met: "),
                            Literal(". ")>>

\* the breed is a listed one and the permit is held: the CONDITIONAL rule with
\* the all root is matched and the rationale asks for 0 requirements
C39_Witness ==
    /\ Len(runs) >= 1
    /\ ~runs[1].threw
    /\ Len(runs[1].rules) = 1
    /\ runs[1].rules[1].conditions = PermitRequired
    /\ runs[1].rules[1].outcome = "CONDITIONAL"
    /\ runs[1].results[1].matched
    /\ Len(runs[1].results[1].passedConditions) = 2
    /\ runs[1].outcome = "CONDITIONAL"
    /\ runs[1].rationale[2] = Interpolated(Num(0))

====
